---- MODULE Spec2Model ----
(***************************************************************************)
(* A state-machine model of Engine/Source/Runtime/Engine/Private/          *)
(* Blueprint.cpp (UBlueprintCore / UBlueprint).                            *)
(*                                                                         *)
(* The module holds several specifications over one set of variables, one  *)
(* per part of the file:                                                   *)
(*   SpecConform  ConformNativeComponents (the native-component repair)    *)
(*   SpecOwner    UBlueprint::ChangeOwnerOfTemplates                       *)
(*   SpecIdent    UBlueprintCore::Serialize, GenerateDeterministicGuid and *)
(*                UBlueprint::Rename, on blueprints without classes        *)
(*   SpecRename   the same calls on a blueprint that has its classes and   *)
(*                a stored guid                                            *)
(*   SpecRenameCalls  UBlueprint::Rename alone on such a blueprint         *)
(*   SpecLoad     UBlueprint::Serialize in loading mode followed by        *)
(*                UBlueprint::PostLoad, twice on the same blueprint        *)
(*   SpecMeta     SetMetaData and RemoveMetaData of a variable description *)
(*   SpecDebug    SetObjectBeingDebugged and GetObjectBeingDebugged        *)
(* Each specification leaves the variables of the other parts unchanged.   *)
(***************************************************************************)
EXTENDS Integers, Sequences, FiniteSets, TLC

VARIABLES
    \* ---- ConformNativeComponents ----
    OldNativeComponents,   \* components of the blueprint CDO, in GetComponents order
    NewNativeComponents,   \* components of the native super-class CDO
    OldAtEntry,            \* history: OldNativeComponents when the function was entered
    cdoIsActor,            \* GeneratedClass != NULL and its CDO casts to AActor
    confIdx,               \* position of the range-for loop over OldNativeComponents
    confPc,                \* "entry" | "loop" | "done" | "crashed"
    \* ---- ChangeOwnerOfTemplates ----
    bpgClassValid,         \* Cast<UBlueprintGeneratedClass>(*GeneratedClass) != NULL
    ComponentTemplates,    \* UBlueprint::ComponentTemplates (object ids, None for NULL)
    Timelines,             \* UBlueprint::Timelines
    SimpleConstructionScript, \* UBlueprint::SimpleConstructionScript
    scsNodes,              \* SCS->GetAllNodes(): each node's ComponentTemplate
    curvesOf,              \* GetAllCurves of a timeline component / timeline template
    outerOf,               \* GetOuter() of every object
    classTemplates,        \* BPGClass->ComponentTemplates, ->Timelines, ->SimpleConstructionScript
    packageDirty,          \* the package's dirty flag
    bIsStillStale,         \* local of ChangeOwnerOfTemplates
    bMigratedOwner,        \* local of ChangeOwnerOfTemplates
    Curves,                \* local TSet<UCurveBase*>
    curvesLeft,            \* the part of Curves the loop of line 1152 has not visited
    ownIdx,                \* position of the current loop
    ownPc,                 \* "entry" | "components" | "timelines" | "curves" | "scs" |
                           \* "scsnodes" | "sync" | "done" | "crashed"
    ownResult,             \* the value returned: "none" | "true" | "false"
    outerAtEntry,          \* history: outerOf when the function was entered
    classAtEntry,          \* history: classTemplates when the function was entered
    renameLog,             \* history: <<object, bRenamed>> of every Rename call made
    \* ---- UBlueprintCore::Serialize, GenerateDeterministicGuid, UBlueprint::Rename ----
    objStore,              \* every object's GetFName() and GetOuter()
    GeneratedClass,        \* UBlueprintCore::GeneratedClass of each blueprint
    SkeletonGeneratedClass, \* UBlueprintCore::SkeletonGeneratedClass of each blueprint
    rfTransient,           \* the objects that carry RF_Transient
    BlueprintGuid,         \* UBlueprintCore::BlueprintGuid of each blueprint
    guidPath,              \* history: the path name hashed when the guid was generated
    lastOp,                \* history: the last call made and its result
    bTraceRenames,         \* history: whether renameTrace is kept
    renameTrace,           \* history: the last Rename's blueprint, flags and calls
    \* ---- UBlueprint::Serialize (loading) and UBlueprint::PostLoad ----
    arVer,                 \* Ar.UE4Ver() of the archive the blueprint is loaded from
    NewVariables,          \* UBlueprint::NewVariables
    newGuids,              \* the number of FGuid::NewGuid() calls made so far
    FunctionGraphs,        \* UBlueprint::FunctionGraphs, by graph name
    MacroGraphs,           \* UBlueprint::MacroGraphs, by graph name
    Breakpoints,           \* UBlueprint::Breakpoints
    scsTransactional,      \* SimpleConstructionScript has RF_Transactional
    BlueprintType,         \* UBlueprint::BlueprintType
    bActorBased,           \* the blueprint's parent class is an actor class
    BlueprintSystemVersion, \* UBlueprint::BlueprintSystemVersion
    Status,                \* UBlueprint::Status
    passLog,               \* history: the steps of the current run, in order
    loadRun,               \* which load of the blueprint this is
    loadPc,                \* "Serialize", "PostLoad", "done" or "crashed"
    afterFirstRun,         \* history: the blueprint as the first load left it
    statusAtEntry,         \* history: Status when the current load began
    atEntry,               \* history: the blueprint when the current load began
    regenResult,           \* history: how RegenerateClass ended in the current load
    \* ---- FBPVariableDescription metadata ----
    MetaDataArray,         \* FBPVariableDescription::MetaDataArray
    metaAtEntry,           \* history: MetaDataArray before the last call
    metaCall,              \* history: the last call and its arguments
    \* ---- the object being debugged ----
    CurrentObjectBeingDebugged, \* UBlueprint::CurrentObjectBeingDebugged (a weak pointer)
    objectState,           \* of each object: "alive", "pendingKill" or "destroyed"
    GCompilingBlueprint,   \* the global of that name
    debuggingAssociation,  \* of each world: the object it was last notified of
    debugCall              \* history: the last call, what it saw and what it did

conformVars == <<OldNativeComponents, NewNativeComponents, OldAtEntry,
                 cdoIsActor, confIdx, confPc>>

ownerVars == <<bpgClassValid, ComponentTemplates, Timelines,
               SimpleConstructionScript, scsNodes, curvesOf, outerOf, classTemplates,
               packageDirty, bIsStillStale, bMigratedOwner, Curves,
               curvesLeft, ownIdx, ownPc, ownResult, outerAtEntry, classAtEntry, renameLog>>

identVars == <<objStore, GeneratedClass, SkeletonGeneratedClass, rfTransient,
               BlueprintGuid, guidPath, lastOp, bTraceRenames, renameTrace>>

loadVars == <<arVer, NewVariables, newGuids, FunctionGraphs, MacroGraphs, Breakpoints,
              scsTransactional, BlueprintType, bActorBased, BlueprintSystemVersion,
              Status, passLog, loadRun, loadPc, afterFirstRun, statusAtEntry,
              atEntry, regenResult>>

metaVars == <<MetaDataArray, metaAtEntry, metaCall>>

debugVars == <<CurrentObjectBeingDebugged, objectState, GCompilingBlueprint,
               debuggingAssociation, debugCall>>

vars == <<conformVars, ownerVars, identVars, loadVars, metaVars, debugVars>>

\* The variables of the other parts, which an action of one part leaves alone.
notConformVars == <<ownerVars, identVars, loadVars, metaVars, debugVars>>
notOwnerVars == <<conformVars, identVars, loadVars, metaVars, debugVars>>
notIdentVars == <<conformVars, ownerVars, loadVars, metaVars, debugVars>>
notMetaVars == <<conformVars, ownerVars, identVars, loadVars, debugVars>>
notDebugVars == <<conformVars, ownerVars, identVars, loadVars, metaVars>>

(***************************************************************************)
(* Bounds of the model.                                                    *)
(***************************************************************************)
\* Largest number of components in one layout.
MaxComps == 2

\* Largest number of entries of ComponentTemplates.
MaxTemplates == 2

\* Largest package file version (Ar.UE4Ver()) an archive carries; an archive
\* that is saving carries this one.
MaxArVer == 5

\* Largest number of variables, of function graphs and of breakpoints a
\* blueprint is loaded with.
MaxVars == 2
MaxGraphs == 2
MaxBreakpoints == 3

\* Component names (FName) a layout draws from.
CompNames == {"A", "B", "C"}

(***************************************************************************)
(*                      ConformNativeComponents                            *)
(*                                                                         *)
(* A component is [name, scene, parent, outer].  scene says whether the    *)
(* object is a USceneComponent (only those carry AttachParent).  A         *)
(* reference to a component names the list it lives in and its position    *)
(* there, so that a pointer into the native layout and a pointer into the  *)
(* blueprint layout are different values, as they are different objects in *)
(* the program.                                                            *)
(***************************************************************************)
NullRef == [list |-> "null", idx |-> 0]
OldRef(i) == [list |-> "old", idx |-> i]
NewRef(j) == [list |-> "new", idx |-> j]

\* The owning object (outer) of the components of each list.
OuterOf(tag) == IF tag = "old" THEN "BlueprintCDO" ELSE "NativeCDO"

\* All layouts of at most MaxComps components with unique names whose
\* AttachParent, when set, is another scene component of the same layout.
Layouts(tag) ==
    UNION { { s \in [1..n -> [name : CompNames, scene : BOOLEAN,
                               parent : {NullRef} \cup {[list |-> tag, idx |-> j] : j \in 1..n},
                               outer : {OuterOf(tag)}]] :
                /\ \A i, j \in 1..n : i # j => s[i].name # s[j].name
                /\ \A i \in 1..n :
                      /\ ~s[i].scene => s[i].parent = NullRef
                      /\ s[i].parent # NullRef =>
                            /\ s[i].parent.idx # i
                            /\ s[s[i].parent.idx].scene }
            : n \in 0..MaxComps }

\* The object a non-null reference points to.
Deref(ref) ==
    IF ref.list = "old" THEN OldNativeComponents[ref.idx]
    ELSE NewNativeComponents[ref.idx]

\* FindNamedComponentLambda: the first component of the list with that name,
\* nullptr when there is none.
FindNamedComponentLambda(ComponentName, ComponentList, tag) ==
    LET hits == {k \in 1..Len(ComponentList) : ComponentList[k].name = ComponentName}
    IN  IF hits = {} THEN NullRef
        ELSE [list |-> tag, idx |-> CHOOSE k \in hits : \A m \in hits : k <= m]

\* FindNativeComponentLambda: the component of NewNativeComponents named like
\* the given component, nullptr for a null argument.
FindNativeComponentLambda(BlueprintComponent) ==
    IF BlueprintComponent # NullRef
    THEN FindNamedComponentLambda(Deref(BlueprintComponent).name, NewNativeComponents, "new")
    ELSE NullRef

\* Cast<USceneComponent> / CastChecked<USceneComponent> succeed on a non-null
\* scene component; CastChecked is fatal on anything else, nullptr included.
IsSceneComponent(ref) == ref # NullRef /\ Deref(ref).scene

\* The test of line 103: the native component has been reparented.
ReparentAlways(OldNativeParent, NativeAttachParent) == TRUE

ReparentNeeded(OldNativeParent, NativeAttachParent) ==
    OldNativeParent # NativeAttachParent

\* Lines 105-109: the component NewParent is looked up among, before the cast.
NewParentFromNative(NativeAttachParent) == NativeAttachParent

NewParentLookup(NativeAttachParent) ==
    IF NativeAttachParent # NullRef
    THEN FindNamedComponentLambda(Deref(NativeAttachParent).name, OldNativeComponents, "old")
    ELSE NullRef

\* Lines 113-122: the branch for a component the native class no longer has.
\* Its body is commented out in the source: the list is left as it is.
RemovedFromNativeDetach(list, i) == [list EXCEPT ![i].parent = NullRef]

RemovedFromNative(list, i) == list

\* Lines 41-43: the function does its work only for a blueprint with a
\* generated class whose default object is an actor.
ConformEnter ==
    /\ confPc = "entry"
    /\ confPc' = IF cdoIsActor THEN "loop" ELSE "done"
    /\ confIdx' = 1
    /\ UNCHANGED <<OldNativeComponents, NewNativeComponents, OldAtEntry, cdoIsActor>>
    /\ UNCHANGED notConformVars

\* One iteration of the loop of lines 86-123, for the component at confIdx.
ConformStep ==
    /\ confPc = "loop"
    /\ confIdx <= Len(OldNativeComponents)
    /\ LET Component == OldRef(confIdx)
           NativeComponent == FindNativeComponentLambda(Component)
       IN  IF NativeComponent # NullRef
           THEN IF ~IsSceneComponent(Component)
                THEN \* line 96: continue
                     /\ confIdx' = confIdx + 1
                     /\ UNCHANGED <<OldNativeComponents, confPc>>
                ELSE LET OldNativeParent == FindNativeComponentLambda(Deref(Component).parent)
                     IN  IF ~IsSceneComponent(NativeComponent)
                         THEN \* line 100: CastChecked fails
                              /\ confPc' = "crashed"
                              /\ UNCHANGED <<OldNativeComponents, confIdx>>
                         ELSE LET NativeAttachParent == Deref(NativeComponent).parent
                              IN  IF ReparentNeeded(OldNativeParent, NativeAttachParent)
                                  THEN LET Found == NewParentLookup(NativeAttachParent)
                                       IN  IF NativeAttachParent # NullRef /\ ~IsSceneComponent(Found)
                                           THEN \* line 108: CastChecked fails
                                                /\ confPc' = "crashed"
                                                /\ UNCHANGED <<OldNativeComponents, confIdx>>
                                           ELSE /\ OldNativeComponents' =
                                                      [OldNativeComponents EXCEPT ![confIdx].parent = Found]
                                                /\ confIdx' = confIdx + 1
                                                /\ UNCHANGED confPc
                                  ELSE /\ confIdx' = confIdx + 1
                                       /\ UNCHANGED <<OldNativeComponents, confPc>>
           ELSE /\ OldNativeComponents' = RemovedFromNative(OldNativeComponents, confIdx)
                /\ confIdx' = confIdx + 1
                /\ UNCHANGED confPc
    /\ UNCHANGED <<NewNativeComponents, OldAtEntry, cdoIsActor>>
    /\ UNCHANGED notConformVars

\* The loop has visited every component: the function returns.
ConformReturn ==
    /\ confPc = "loop"
    /\ confIdx > Len(OldNativeComponents)
    /\ confPc' = "done"
    /\ UNCHANGED <<OldNativeComponents, NewNativeComponents, OldAtEntry, cdoIsActor, confIdx>>
    /\ UNCHANGED notConformVars

ConformInit ==
    /\ OldNativeComponents \in Layouts("old")
    /\ NewNativeComponents \in Layouts("new")
    /\ OldAtEntry = OldNativeComponents
    /\ cdoIsActor \in BOOLEAN
    /\ confIdx = 1
    /\ confPc = "entry"

ConformNext == ConformEnter \/ ConformStep \/ ConformReturn

\* The state of this part while another part is being checked.
ConformIdle ==
    /\ OldNativeComponents = <<>>
    /\ NewNativeComponents = <<>>
    /\ OldAtEntry = <<>>
    /\ cdoIsActor = FALSE
    /\ confIdx = 1
    /\ confPc = "done"

(***************************************************************************)
(*                   UBlueprint::ChangeOwnerOfTemplates                    *)
(*                                                                         *)
(* Objects are identified by <<kind, number>>; None is the null pointer.   *)
(* outerOf gives each object's GetOuter(): the blueprint ("Blueprint"), as *)
(* assets older than VER_UE4_EDITORONLY_BLUEPRINTS have it, or its         *)
(* generated class ("GeneratedClass").                                     *)
(* UObject::Rename is not part of this file: whether a call succeeds is an *)
(* input of the step that makes it, and a successful call with a new outer *)
(* moves the object there.                                                 *)
(***************************************************************************)
None == <<"none", 0>>
CompIds == {<<"component", i>> : i \in 1..MaxTemplates}
\* One timeline template, one construction-script node and one curve.
TimelineIds == {<<"timeline", 1>>}
NodeTemplateIds == {<<"nodetemplate", 1>>}
CurveIds == {<<"curve", 1>>}
ScsId == <<"scs", 1>>
\* An SCS node pointer that is itself NULL (line 1175).
NullNode == <<"nullnode", 0>>
OwnerObjects == CompIds \cup TimelineIds \cup NodeTemplateIds \cup CurveIds \cup {ScsId}
Outers == {"Blueprint", "GeneratedClass"}

\* Lists of at most max entries whose i-th entry is object <<kind, i>> or one
\* of the null values given.
ListsOf(kind, max, nulls) ==
    UNION { { s \in [1..n -> nulls \cup {<<kind, i>> : i \in 1..max}] :
                 \A i \in 1..n : s[i] \in nulls \/ s[i] = <<kind, i>> }
            : n \in 0..max }

\* The entries of a list that are objects.
ObjectsIn(list) == {list[i] : i \in 1..Len(list)} \ {None, NullNode}

\* The sub-object templates the blueprint holds: component templates,
\* timeline templates, the construction script and its nodes' templates.
OwnedTemplates ==
    ObjectsIn(ComponentTemplates) \cup ObjectsIn(Timelines) \cup ObjectsIn(scsNodes)
        \cup (IF SimpleConstructionScript = None THEN {} ELSE {SimpleConstructionScript})

\* UObject::Rename(NewName, NewOuter, Flags) on Object, given its result.
UObjectRename(outers, Object, NewOuter, bRenamed) ==
    IF bRenamed THEN [outers EXCEPT ![Object] = NewOuter] ELSE outers

\* bIsStillStale |= !bRenamed (lines 1127, 1146, 1158, 1168, 1180).
StaleOverwritten(stale, bRenamed) == ~bRenamed

StaleAfter(stale, bRenamed) == stale \/ ~bRenamed

\* The test that guards each Rename: the object's outer is this blueprint.
OwnedByClassToo(Object) == TRUE

OwnedByBlueprint(Object) == outerOf[Object] = "Blueprint"

\* Lines 1204-1206: what the generated class's lists are set to.
SyncNothing == classTemplates

SyncClassLists ==
    [components |-> ComponentTemplates, timelines |-> Timelines,
     scs |-> SimpleConstructionScript]

\* Lines 1110-1114 and 1210-1214: without a blueprint generated class the
\* function logs and returns !bIsStillStale, which is true.
OwnEnter ==
    /\ ownPc = "entry"
    /\ bIsStillStale' = FALSE
    /\ IF ~bpgClassValid
       THEN /\ ownPc' = "done"
            /\ ownResult' = "true"
       ELSE \* check(!bIsRegeneratingOnLoad), the flag being read here
            /\ \E bIsRegeneratingOnLoad \in BOOLEAN :
                  ownPc' = IF bIsRegeneratingOnLoad THEN "crashed" ELSE "components"
            /\ UNCHANGED ownResult
    /\ bMigratedOwner' = FALSE
    /\ Curves' = {}
    /\ ownIdx' = 1
    /\ UNCHANGED <<bpgClassValid, ComponentTemplates, Timelines,
                   SimpleConstructionScript, scsNodes, curvesOf, outerOf, classTemplates,
                   packageDirty, curvesLeft, outerAtEntry, classAtEntry, renameLog>>
    /\ UNCHANGED notOwnerVars

\* One iteration of a loop: Rename Object into the class if the blueprint
\* owns it.  migrates says whether the loop sets bMigratedOwner.
RenameIfOwned(Object, migrates) ==
    IF OwnedByBlueprint(Object)
    THEN \E bRenamed \in BOOLEAN :
            /\ outerOf' = UObjectRename(outerOf, Object, "GeneratedClass", bRenamed)
            /\ bIsStillStale' = StaleAfter(bIsStillStale, bRenamed)
            /\ bMigratedOwner' = (bMigratedOwner \/ migrates)
            /\ renameLog' = Append(renameLog, <<Object, bRenamed>>)
    ELSE UNCHANGED <<outerOf, bIsStillStale, bMigratedOwner, renameLog>>

\* Lines 1119-1134: one component template.
OwnComponent ==
    /\ ownPc = "components"
    /\ ownIdx <= Len(ComponentTemplates)
    /\ LET Component == ComponentTemplates[ownIdx]
       IN  IF Component = None
           THEN \* check(Component)
                /\ ownPc' = "crashed"
                /\ UNCHANGED <<outerOf, bIsStillStale, bMigratedOwner, renameLog, Curves, ownIdx>>
           ELSE /\ RenameIfOwned(Component, TRUE)
                /\ Curves' = Curves \cup curvesOf[Component]
                /\ ownIdx' = ownIdx + 1
                /\ UNCHANGED ownPc
    /\ UNCHANGED <<bpgClassValid, ComponentTemplates, Timelines,
                   SimpleConstructionScript, scsNodes, curvesOf, classTemplates,
                   packageDirty, curvesLeft, ownResult, outerAtEntry, classAtEntry>>
    /\ UNCHANGED notOwnerVars

\* Lines 1136-1151: one timeline template.
OwnTimeline ==
    /\ ownPc = "timelines"
    /\ ownIdx <= Len(Timelines)
    /\ LET Template == Timelines[ownIdx]
       IN  IF Template = None
           THEN \* check(Template)
                /\ ownPc' = "crashed"
                /\ UNCHANGED <<outerOf, bIsStillStale, bMigratedOwner, renameLog, Curves, ownIdx>>
           ELSE /\ RenameIfOwned(Template, TRUE)
                /\ Curves' = Curves \cup curvesOf[Template]
                /\ ownIdx' = ownIdx + 1
                /\ UNCHANGED ownPc
    /\ UNCHANGED <<bpgClassValid, ComponentTemplates, Timelines,
                   SimpleConstructionScript, scsNodes, curvesOf, classTemplates,
                   packageDirty, curvesLeft, ownResult, outerAtEntry, classAtEntry>>
    /\ UNCHANGED notOwnerVars

\* Lines 1152-1160: one curve of the set gathered by the two loops above.
OwnCurve ==
    /\ ownPc = "curves"
    /\ \E Curve \in curvesLeft :
          /\ RenameIfOwned(Curve, FALSE)
          /\ curvesLeft' = curvesLeft \ {Curve}
    /\ UNCHANGED <<bpgClassValid, ComponentTemplates, Timelines,
                   SimpleConstructionScript, scsNodes, curvesOf, classTemplates,
                   packageDirty, Curves, ownIdx, ownPc, ownResult, outerAtEntry, classAtEntry>>
    /\ UNCHANGED notOwnerVars

\* Lines 1162-1172: the construction script itself.
OwnSCS ==
    /\ ownPc = "scs"
    /\ IF SimpleConstructionScript # None
       THEN /\ RenameIfOwned(SimpleConstructionScript, TRUE)
            /\ ownPc' = "scsnodes"
       ELSE /\ ownPc' = "sync"
            /\ UNCHANGED <<outerOf, bIsStillStale, bMigratedOwner, renameLog>>
    /\ ownIdx' = 1
    /\ UNCHANGED <<bpgClassValid, ComponentTemplates, Timelines,
                   SimpleConstructionScript, scsNodes, curvesOf, classTemplates,
                   packageDirty, Curves, curvesLeft, ownResult, outerAtEntry, classAtEntry>>
    /\ UNCHANGED notOwnerVars

\* Lines 1173-1183: one node of the construction script.
OwnSCSNode ==
    /\ ownPc = "scsnodes"
    /\ ownIdx <= Len(scsNodes)
    /\ LET SCSNode == scsNodes[ownIdx]
           Component == IF SCSNode = NullNode THEN None ELSE SCSNode
       IN  IF Component # None
           THEN RenameIfOwned(Component, TRUE)
           ELSE UNCHANGED <<outerOf, bIsStillStale, bMigratedOwner, renameLog>>
    /\ ownIdx' = ownIdx + 1
    /\ UNCHANGED <<bpgClassValid, ComponentTemplates, Timelines,
                   SimpleConstructionScript, scsNodes, curvesOf, classTemplates,
                   packageDirty, Curves, curvesLeft, ownPc, ownResult, outerAtEntry, classAtEntry>>
    /\ UNCHANGED notOwnerVars

\* The end of each loop: control moves to the statement after it.
OwnLoopEnd ==
    /\ \/ /\ ownPc = "components" /\ ownIdx > Len(ComponentTemplates)
          /\ ownPc' = "timelines"
          /\ UNCHANGED curvesLeft
       \/ /\ ownPc = "timelines" /\ ownIdx > Len(Timelines)
          /\ ownPc' = "curves"
          /\ curvesLeft' = Curves
       \/ /\ ownPc = "curves" /\ curvesLeft = {}
          /\ ownPc' = "scs"
          /\ UNCHANGED curvesLeft
       \/ /\ ownPc = "scsnodes" /\ ownIdx > Len(scsNodes)
          /\ ownPc' = "sync"
          /\ UNCHANGED curvesLeft
    /\ ownIdx' = 1
    /\ UNCHANGED <<bpgClassValid, ComponentTemplates, Timelines,
                   SimpleConstructionScript, scsNodes, curvesOf, outerOf, classTemplates,
                   packageDirty, bIsStillStale, bMigratedOwner, Curves,
                   ownResult, outerAtEntry, classAtEntry, renameLog>>
    /\ UNCHANGED notOwnerVars

\* Lines 1186-1214: after a migration the class's lists are set from the
\* blueprint's and the package may be marked dirty; the function returns
\* !bIsStillStale.
OwnSync ==
    /\ ownPc = "sync"
    /\ IF bMigratedOwner
       THEN /\ classTemplates' = SyncClassLists
            \* lines 1188-1202: a non-transient blueprint in a package, with
            \* bDirtyMigratedBlueprints set, dirties its package
            /\ \E markDirty \in BOOLEAN : packageDirty' = (packageDirty \/ markDirty)
       ELSE UNCHANGED <<classTemplates, packageDirty>>
    /\ ownResult' = IF bIsStillStale THEN "false" ELSE "true"
    /\ ownPc' = "done"
    /\ UNCHANGED <<bpgClassValid, ComponentTemplates, Timelines,
                   SimpleConstructionScript, scsNodes, curvesOf, outerOf,
                   bIsStillStale, bMigratedOwner, Curves,
                   curvesLeft, ownIdx, outerAtEntry, classAtEntry, renameLog>>
    /\ UNCHANGED notOwnerVars

\* A blueprint as PostLoadSubobjects finds it.  Objects that no list holds
\* are given one fixed outer so that they do not multiply the states.
OwnerInit ==
    /\ bpgClassValid \in BOOLEAN
    /\ ComponentTemplates \in ListsOf("component", MaxTemplates, {None})
    /\ Timelines \in ListsOf("timeline", 1, {None})
    /\ SimpleConstructionScript \in {None, ScsId}
    /\ scsNodes \in IF SimpleConstructionScript = None THEN {<<>>}
                    ELSE ListsOf("nodetemplate", 1, {None, NullNode})
    /\ curvesOf \in [CompIds \cup TimelineIds -> SUBSET CurveIds]
    /\ \A o \in (CompIds \cup TimelineIds) \ (ObjectsIn(ComponentTemplates) \cup ObjectsIn(Timelines)) :
          curvesOf[o] = {}
    /\ \A o \in CompIds : o[2] > 1 => curvesOf[o] = {}
    /\ outerOf \in [OwnerObjects -> Outers]
    /\ \A o \in OwnerObjects \ (OwnedTemplates \cup UNION {curvesOf[x] : x \in CompIds \cup TimelineIds}) :
          outerOf[o] = "GeneratedClass"
    /\ ~bpgClassValid => \A o \in OwnedTemplates : outerOf[o] = "Blueprint"
    /\ classTemplates \in { [components |-> <<>>, timelines |-> <<>>, scs |-> None],
                            SyncClassLists }
    /\ ~bpgClassValid =>
          classTemplates = [components |-> <<>>, timelines |-> <<>>, scs |-> None]
    /\ packageDirty = FALSE
    /\ bIsStillStale = FALSE
    /\ bMigratedOwner = FALSE
    /\ Curves = {}
    /\ curvesLeft = {}
    /\ ownIdx = 1
    /\ ownPc = "entry"
    /\ ownResult = "none"
    /\ outerAtEntry = outerOf
    /\ classAtEntry = classTemplates
    /\ renameLog = <<>>

OwnerIdle ==
    /\ bpgClassValid = FALSE
    /\ ComponentTemplates = <<>>
    /\ Timelines = <<>>
    /\ SimpleConstructionScript = None
    /\ scsNodes = <<>>
    /\ curvesOf = [o \in CompIds \cup TimelineIds |-> {}]
    /\ outerOf = [o \in OwnerObjects |-> "GeneratedClass"]
    /\ classTemplates = [components |-> <<>>, timelines |-> <<>>, scs |-> None]
    /\ packageDirty = FALSE
    /\ bIsStillStale = FALSE
    /\ bMigratedOwner = FALSE
    /\ Curves = {}
    /\ curvesLeft = {}
    /\ ownIdx = 1
    /\ ownPc = "done"
    /\ ownResult = "none"
    /\ outerAtEntry = outerOf
    /\ classAtEntry = classTemplates
    /\ renameLog = <<>>

OwnerNext ==
    OwnEnter \/ OwnComponent \/ OwnTimeline \/ OwnCurve \/ OwnSCS \/ OwnSCSNode
        \/ OwnLoopEnd \/ OwnSync

(***************************************************************************)
(*    UBlueprintCore::Serialize, GenerateDeterministicGuid, Rename         *)
(*                                                                         *)
(* Strings are sequences of TCHAR code units.  Every object has a name and *)
(* an outer; a blueprint's path name is "<package>.<name>".  Two           *)
(* blueprints share the name space with the first one's generated class    *)
(* and skeleton class and with one unrelated object.                       *)
(***************************************************************************)
\* "X", "Y": the names a blueprint is given.
BaseNames == {<<88>>, <<89>>}
\* "/P1", "/P2": the packages.
Packages == {<<47, 80, 49>>, <<47, 80, 50>>}
NoObject == "NULL"
\* A null NewOuter argument.
NullOuter == <<>>
Blueprints == {"bp1", "bp2"}
ObjIds == {"bp1", "gc1", "sk1", "bp2", "other"}

\* GetBlueprintClassNames: "<name>_C" and "SKEL_<name>_C".
GenClassNameOf(InName) == InName \o <<95, 67>>
SkelClassNameOf(InName) == <<83, 75, 69, 76, 95>> \o InName \o <<95, 67>>

\* UObject::GetPathName of an object that lies directly in a package.
GetPathName(Object) == objStore[Object].outer \o <<46>> \o objStore[Object].name

\* The package file versions this file compares Ar.UE4Ver() with, by their
\* order in the version enumeration (the least first).
VER_UE4_BLUEPRINT_VARS_NOT_READ_ONLY == 1
VER_UE4_BLUEPRINT_SKEL_TEMPORARY_TRANSIENT == 2
VER_UE4_BLUEPRINT_SKEL_CLASS_TRANSIENT_AGAIN == 3
VER_UE4_K2NODE_REFERENCEGUIDS == 4
VER_UE4_FIX_BLUEPRINT_VARIABLE_FLAGS == 5

\* The memory of a TCHAR string, as HashBuffer reads it: HashString.Len() *
\* sizeof(HashString[0]) bytes, two per code unit, the low byte first.
RECURSIVE TCharBytes(_)
TCharBytes(str) ==
    IF str = <<>> THEN <<>>
    ELSE <<Head(str) % 256, (Head(str) \div 256) % 256>> \o TCharBytes(Tail(str))

\* FSHA1::HashBuffer stands outside this file.  The model keeps what the
\* caller relies on: the 20 output bytes are a fixed function of the input
\* bytes alone.  Byte k folds the input with a multiplier and a seed of its
\* own.
RECURSIVE DigestFold(_, _, _)
DigestFold(bytes, k, h) ==
    IF bytes = <<>> THEN h
    ELSE DigestFold(Tail(bytes), k, (h * (31 + 2 * k) + Head(bytes) + k) % 256)

FSHA1HashBuffer(bytes) == [k \in 1..20 |-> DigestFold(bytes, k, (7 * k + 1) % 256)]

\* reinterpret_cast<uint8*>(HashBuffer): the 32-bit word HashBuffer[w], w in
\* 0..4, is output bytes 4w+1..4w+4, the low byte first.  A 32-bit word is
\* kept as its four bytes.
HashWord(out, w) == <<out[4 * w + 1], out[4 * w + 2], out[4 * w + 3], out[4 * w + 4]>>

ZeroWord == <<0, 0, 0, 0>>

\* FGuid(): all four words zero, which FGuid::IsValid rejects.
InvalidGuid == [A |-> ZeroWord, B |-> ZeroWord, C |-> ZeroWord, D |-> ZeroWord]
IsValidGuid(g) == g.A # ZeroWord \/ g.B # ZeroWord \/ g.C # ZeroWord \/ g.D # ZeroWord

\* The guid lines 261-267 make of a string: words 1..4 of the five hashed.
GuidOfString(HashString) ==
    LET out == FSHA1HashBuffer(TCharBytes(HashString))
    IN  [A |-> HashWord(out, 1), B |-> HashWord(out, 2),
         C |-> HashWord(out, 3), D |-> HashWord(out, 4)]

\* UBlueprintCore::GenerateDeterministicGuid: the string is GetPathName().
GenerateGuidOfObjectAddress(bp) == GuidOfString(<<IF bp = "bp1" THEN 4096 ELSE 8192>>)

GenerateDeterministicGuid(bp) == GuidOfString(GetPathName(bp))

\* Line 230: when the guid is generated.
NeedsGuidOnEveryLoad(ArIsLoading, Guid) == ArIsLoading

NeedsGuid(ArIsLoading, Guid) == ArIsLoading /\ ~IsValidGuid(Guid)

\* Lines 196-197: the archive still holds the two class references.
HasSerializedClasses(Ver) ==
    Ver < VER_UE4_BLUEPRINT_SKEL_CLASS_TRANSIENT_AGAIN
        /\ Ver # VER_UE4_BLUEPRINT_SKEL_TEMPORARY_TRANSIENT

\* The class objects an archive of a blueprint can refer to: those of its
\* classes that exist.
ClassesOf(bp) ==
    IF bp = "bp1" THEN {c \in {"gc1", "sk1"} : objStore[c].name # <<>>} ELSE {}

\* UBlueprintCore::Serialize(Ar) on blueprint bp.  ArIsLoading and Ver are
\* the archive's; ArSkel and ArGen are the references a loading archive
\* holds; bHasBeenRegenerated is the UBlueprint's flag.
SerializeCore(bp, ArIsLoading, Ver, ArSkel, ArGen, bHasBeenRegenerated) ==
    /\ IF HasSerializedClasses(Ver) /\ ArIsLoading
       THEN /\ SkeletonGeneratedClass' = [SkeletonGeneratedClass EXCEPT ![bp] = ArSkel]
            /\ rfTransient' = IF ArSkel # NoObject THEN rfTransient \cup {ArSkel}
                              ELSE rfTransient
            /\ GeneratedClass' = IF ~bHasBeenRegenerated
                                 THEN [GeneratedClass EXCEPT ![bp] = ArGen]
                                 ELSE GeneratedClass
       ELSE /\ IF HasSerializedClasses(Ver) /\ SkeletonGeneratedClass[bp] # NoObject
               THEN rfTransient' = rfTransient \cup {SkeletonGeneratedClass[bp]}
               ELSE UNCHANGED rfTransient
            /\ UNCHANGED <<SkeletonGeneratedClass, GeneratedClass>>
    /\ IF NeedsGuid(ArIsLoading, BlueprintGuid[bp])
       THEN /\ BlueprintGuid' = [BlueprintGuid EXCEPT ![bp] = GenerateDeterministicGuid(bp)]
            /\ guidPath' = [guidPath EXCEPT ![bp] = GetPathName(bp)]
       ELSE UNCHANGED <<BlueprintGuid, guidPath>>
    /\ UNCHANGED <<objStore, bTraceRenames, renameTrace>>

\* The class references an archive of version Ver can hold: archives that
\* no longer hold the two references hold none.
ArchiveRefs(bp, Ver) ==
    IF HasSerializedClasses(Ver) THEN {NoObject} \cup ClassesOf(bp) ELSE {NoObject}

\* A blueprint is loaded from an archive of some version.  bHasBeenRegenerated
\* is read only when the archive holds the class references.
Load ==
    \E bp \in Blueprints, Ver \in 0..MaxArVer :
      \E bHasBeenRegenerated \in IF HasSerializedClasses(Ver) THEN BOOLEAN ELSE {FALSE},
         ArSkel \in ArchiveRefs(bp, Ver), ArGen \in ArchiveRefs(bp, Ver) :
        /\ ArGen # "sk1"
        /\ SerializeCore(bp, TRUE, Ver, ArSkel, ArGen, bHasBeenRegenerated)
        /\ lastOp' = [op |-> "load", ok |-> TRUE]
        /\ UNCHANGED notIdentVars

\* A blueprint is saved; a saving archive carries the latest version.
Save ==
    \E bp \in Blueprints :
        /\ SerializeCore(bp, FALSE, MaxArVer, NoObject, NoObject, FALSE)
        /\ lastOp' = [op |-> "save", ok |-> TRUE]
        /\ UNCHANGED notIdentVars

\* UObject::Rename stands outside this file; the specification has it fail,
\* changing nothing, when the name is taken in the destination, and REN_Test
\* asks for the answer without the move.  A null NewOuter keeps the outer.
RenameTarget(store, Object, NewOuter) ==
    IF NewOuter = NullOuter THEN store[Object].outer ELSE NewOuter

RenameAllowed(store, Object, NewName, NewOuter) ==
    ~\E o \in ObjIds \ {Object} :
        /\ store[o].name = NewName
        /\ store[o].outer = RenameTarget(store, Object, NewOuter)

UObjectRenameTo(store, Object, NewName, NewOuter, Flags) ==
    IF RenameAllowed(store, Object, NewName, NewOuter) /\ "REN_Test" \notin Flags
    THEN [store EXCEPT ![Object] = [name |-> NewName,
                                    outer |-> RenameTarget(store, Object, NewOuter)]]
    ELSE store

\* UBlueprint::RenameGeneratedClasses: [ok, store, calls], the result, the
\* objects afterwards and the Rename calls made on the classes, in order.
RenameGeneratedClasses(bp, InName, NewOuter, Flags) ==
    LET gen == GeneratedClass[bp]
        skel == SkeletonGeneratedClass[bp]
        \* NewOuter ? NewOuter->GetOutermost() : NULL; a package is its own outermost
        NewTopLevelObjectOuter == NewOuter
        genOk == gen = NoObject
                     \/ RenameAllowed(objStore, gen, GenClassNameOf(InName), NewTopLevelObjectOuter)
        store1 == IF gen = NoObject THEN objStore
                  ELSE UObjectRenameTo(objStore, gen, GenClassNameOf(InName),
                                       NewTopLevelObjectOuter, Flags)
        calls1 == IF gen = NoObject THEN <<>> ELSE <<"GeneratedClass->Rename">>
        doSkel == skel # NoObject /\ skel # gen
        calls2 == IF doSkel THEN Append(calls1, "SkeletonGeneratedClass->Rename")
                  ELSE calls1
        skelOk == ~doSkel
                      \/ RenameAllowed(store1, skel, SkelClassNameOf(InName), NewTopLevelObjectOuter)
        store2 == IF doSkel
                  THEN UObjectRenameTo(store1, skel, SkelClassNameOf(InName),
                                       NewTopLevelObjectOuter, Flags)
                  ELSE store1
    IN  IF "REN_SkipGeneratedClasses" \in Flags
        THEN [ok |-> TRUE, store |-> objStore, calls |-> <<>>]
        ELSE IF ~genOk THEN [ok |-> FALSE, store |-> store1, calls |-> calls1]
        ELSE IF ~skelOk THEN [ok |-> FALSE, store |-> store2, calls |-> calls2]
        ELSE [ok |-> TRUE, store |-> store2, calls |-> calls2]

\* The record of a Rename call, kept where renames are traced: the
\* blueprint, the flags passed and the calls made, in order.
NoTrace == [bp |-> "bp1", flags |-> {}, calls |-> <<>>]

TraceOf(bp, Flags, calls) ==
    IF bTraceRenames THEN [bp |-> bp, flags |-> Flags, calls |-> calls] ELSE renameTrace

\* Line 408: whether the rename ends with a compile.
CompilesUnlessTest(bSuccess, Flags) == bSuccess /\ "REN_Test" \notin Flags

CompilesAfterRename(bSuccess, Flags) ==
    bSuccess /\ "REN_Test" \notin Flags /\ "REN_DoNotDirty" \notin Flags

\* UBlueprint::Rename(InName, NewOuter, Flags) on blueprint bp.
Rename ==
    \E bp \in Blueprints, InName \in BaseNames, NewOuter \in Packages \cup {NullOuter},
       Flags \in SUBSET {"REN_Test", "REN_DoNotDirty", "REN_SkipGeneratedClasses"} :
        LET classes == RenameGeneratedClasses(bp, InName, NewOuter, Flags)
            bSuccess == RenameAllowed(classes.store, bp, InName, NewOuter)
        IN  /\ IF ~classes.ok
               THEN /\ objStore' = classes.store
                    /\ lastOp' = [op |-> "rename", ok |-> FALSE]
                    /\ renameTrace' = TraceOf(bp, Flags, classes.calls)
               ELSE /\ objStore' = UObjectRenameTo(classes.store, bp, InName, NewOuter, Flags)
                    /\ lastOp' = [op |-> "rename", ok |-> bSuccess]
                    /\ renameTrace' =
                          TraceOf(bp, Flags,
                                  classes.calls \o <<"Super::Rename">>
                                      \o (IF CompilesAfterRename(bSuccess, Flags)
                                          THEN <<"CompileBlueprint">> ELSE <<>>))
            /\ UNCHANGED <<GeneratedClass, SkeletonGeneratedClass, rfTransient,
                           BlueprintGuid, guidPath, bTraceRenames>>
            /\ UNCHANGED notIdentVars

\* A guid an asset may bring from an earlier save.
StoredGuid == [A |-> <<1, 0, 0, 0>>, B |-> <<2, 0, 0, 0>>,
               C |-> <<3, 0, 0, 0>>, D |-> <<4, 0, 0, 0>>]

\* The objects at the start: blueprint X in /P1, blueprint Y in either
\* package, an unrelated object named SKEL_Y_C in /P2, and those of the
\* classes X_C (gc1) and SKEL_X_C (sk1) of the first blueprint that exist.
ObjectsAtStart(classes, pkg2) ==
    [o \in ObjIds |->
        CASE o = "bp1" -> [name |-> <<88>>, outer |-> <<47, 80, 49>>]
          [] o = "gc1" -> IF "gc1" \in classes
                          THEN [name |-> GenClassNameOf(<<88>>), outer |-> <<47, 80, 49>>]
                          ELSE [name |-> <<>>, outer |-> <<>>]
          [] o = "sk1" -> IF "sk1" \in classes
                          THEN [name |-> SkelClassNameOf(<<88>>), outer |-> <<47, 80, 49>>]
                          ELSE [name |-> <<>>, outer |-> <<>>]
          [] o = "bp2" -> [name |-> <<89>>, outer |-> pkg2]
          [] o = "other" -> [name |-> SkelClassNameOf(<<89>>), outer |-> <<47, 80, 50>>] ]

\* Blueprints that have no class yet, with or without a stored guid.
IdentInit ==
    /\ objStore \in {ObjectsAtStart({}, pkg2) : pkg2 \in Packages}
    /\ GeneratedClass = [bp \in Blueprints |-> NoObject]
    /\ SkeletonGeneratedClass = [bp \in Blueprints |-> NoObject]
    /\ rfTransient = {}
    /\ BlueprintGuid \in [Blueprints -> {InvalidGuid, StoredGuid}]
    /\ guidPath = [bp \in Blueprints |-> <<>>]
    /\ lastOp = [op |-> "none", ok |-> TRUE]
    /\ bTraceRenames = FALSE
    /\ renameTrace = NoTrace

\* The first blueprint has its classes; both blueprints have a stored guid.
RenameInit ==
    /\ objStore \in {ObjectsAtStart({"gc1", "sk1"}, pkg2) : pkg2 \in Packages}
    /\ GeneratedClass \in { [bp \in Blueprints |-> IF bp = "bp1" THEN g ELSE NoObject]
                            : g \in {NoObject, "gc1"} }
    /\ SkeletonGeneratedClass \in { [bp \in Blueprints |-> IF bp = "bp1" THEN k ELSE NoObject]
                                    : k \in {NoObject, "sk1", "gc1"} }
    /\ SkeletonGeneratedClass["bp1"] = "gc1" => GeneratedClass["bp1"] = "gc1"
    /\ rfTransient = {}
    /\ BlueprintGuid = [bp \in Blueprints |-> StoredGuid]
    /\ guidPath = [bp \in Blueprints |-> <<>>]
    /\ lastOp = [op |-> "none", ok |-> TRUE]
    /\ bTraceRenames = FALSE
    /\ renameTrace = NoTrace

IdentIdle ==
    /\ objStore = [o \in ObjIds |-> [name |-> <<>>, outer |-> <<>>]]
    /\ GeneratedClass = [bp \in Blueprints |-> NoObject]
    /\ SkeletonGeneratedClass = [bp \in Blueprints |-> NoObject]
    /\ rfTransient = {}
    /\ BlueprintGuid = [bp \in Blueprints |-> InvalidGuid]
    /\ guidPath = [bp \in Blueprints |-> <<>>]
    /\ lastOp = [op |-> "none", ok |-> TRUE]
    /\ bTraceRenames = FALSE
    /\ renameTrace = NoTrace

IdentNext == Load \/ Save \/ Rename

(***************************************************************************)
(*        UBlueprint::Serialize (loading) and UBlueprint::PostLoad         *)
(*                                                                         *)
(* Blueprint "bp1" is loaded twice from the same archive.  A load is the   *)
(* call of Serialize followed by the call of PostLoad.  The steps of both  *)
(* functions are kept in the order of their statements: a documented pass  *)
(* n is <<"pass", n>>, a statement of the functions that the pass list     *)
(* does not name is <<"step", k>>.                                         *)
(***************************************************************************)
\* UBlueprint::GetCurrentBlueprintSystemVersion.
CurrentBlueprintSystemVersion == 1

\* FGuid values of variables: the invalid guid, the guid variable i was
\* saved with, and the guid the n-th call of FGuid::NewGuid returns.
InvalidVarGuid == <<"invalid", 0>>
StoredVarGuid(i) == <<"stored", i>>
\* FGuid::NewGuid stands outside this file: no two calls return one guid.
NewGuid(n) == <<"new", n>>

\* What a variable's type refers to (VarType.PinSubCategoryObject): nothing,
\* a class that descends from AActor, another class, or a structure that no
\* longer exists.
VarTypes == {"none", "actorClass", "otherClass", "missingStruct"}
PropertyFlagBits == {"CPF_BlueprintReadOnly", "CPF_DisableEditOnTemplate"}

VariableDescriptions(i) ==
    [VarGuid : {InvalidVarGuid, StoredVarGuid(i)}, PropertyFlags : SUBSET PropertyFlagBits,
     VarType : VarTypes]

VariableLists ==
    UNION { {l \in [1..n -> UNION {VariableDescriptions(i) : i \in 1..n}] :
                \A i \in 1..n : l[i] \in VariableDescriptions(i)} : n \in 0..MaxVars }

\* The lists a load starts from: the variables differ in flags and type and
\* have no guid yet, or they differ in whether they have a guid.
FlagVariableLists == {l \in VariableLists : \A i \in DOMAIN l : l[i].VarGuid = InvalidVarGuid}
GuidVariableLists ==
    {l \in VariableLists :
        \A i \in DOMAIN l : l[i].PropertyFlags = {} /\ l[i].VarType = "none"}

\* Graph lists: a null entry or a graph; a graph's name is unique.
GraphLists(names, max) ==
    UNION { {l \in [1..n -> names \cup {"null"}] :
                \A i, j \in 1..n : (i # j /\ l[i] # "null") => l[i] # l[j]} : n \in 0..max }

\* A breakpoint entry: null, a breakpoint without a location, or a
\* breakpoint whose location resolves.
\* A breakpoint entry: null, a breakpoint without a location, or one of two
\* breakpoints that have a location.
BreakpointKinds == {"null", "noLocation", "locatedA", "locatedB"}
IsStale(Breakpoint) == Breakpoint = "null" \/ Breakpoint = "noLocation"
BreakpointLists == UNION { [1..n -> BreakpointKinds] : n \in 0..MaxBreakpoints }

\* Lines 290-296.
ClearEveryFlag(Variables) ==
    [i \in DOMAIN Variables |-> [Variables[i] EXCEPT !.PropertyFlags = {}]]

ClearReadOnly(Variables) ==
    [i \in DOMAIN Variables |->
        [Variables[i] EXCEPT !.PropertyFlags = @ \ {"CPF_BlueprintReadOnly"}]]

\* Lines 300-303: the i-th variable gets the guid of call n + i.
AssignVarGuids(Variables, n) ==
    [i \in DOMAIN Variables |-> [Variables[i] EXCEPT !.VarGuid = NewGuid(n + i)]]

\* Lines 326-352.
SetEditOnTemplateOnly(Variables) ==
    [i \in DOMAIN Variables |->
        [Variables[i] EXCEPT !.PropertyFlags =
            IF Variables[i].VarType = "actorClass"
            THEN @ \cup {"CPF_DisableEditOnTemplate"} ELSE @]]

FixEditOnTemplate(Variables) ==
    [i \in DOMAIN Variables |->
        LET bDisableEditOnTemplate == Variables[i].VarType = "actorClass"
        IN  [Variables[i] EXCEPT !.PropertyFlags =
                IF bDisableEditOnTemplate THEN @ \cup {"CPF_DisableEditOnTemplate"}
                ELSE @ \ {"CPF_DisableEditOnTemplate"}]]

\* FBlueprintEditorUtils::PurgeNullGraphs stands outside this file; the
\* specification has it drop the null entries of the graph lists.
PurgeNullGraphs(Graphs) == SelectSeq(Graphs, LAMBDA g : g # "null")

\* Lines 449-458: the first graph named AutoConstructionScript is removed.
RECURSIVE RemoveAutoConstructionScript(_, _)
RemoveAutoConstructionScript(Graphs, i) ==
    IF i > Len(Graphs) THEN Graphs
    ELSE IF Graphs[i] # "null" /\ Graphs[i] = "AutoConstructionScript"
         THEN SubSeq(Graphs, 1, i - 1) \o SubSeq(Graphs, i + 1, Len(Graphs))
         ELSE RemoveAutoConstructionScript(Graphs, i + 1)

\* Lines 461-469: RemoveAt(i) and --i, then ++i.
RECURSIVE RemoveAtWithoutStepBack(_, _)
RemoveAtWithoutStepBack(List, i) ==
    IF i > Len(List) THEN List
    ELSE IF IsStale(List[i])
         THEN RemoveAtWithoutStepBack(SubSeq(List, 1, i - 1) \o SubSeq(List, i + 1, Len(List)),
                                      i + 1)
         ELSE RemoveAtWithoutStepBack(List, i + 1)

RECURSIVE RemoveStaleBreakpoints(_, _)
RemoveStaleBreakpoints(List, i) ==
    IF i > Len(List) THEN List
    ELSE IF IsStale(List[i])
         THEN RemoveStaleBreakpoints(SubSeq(List, 1, i - 1) \o SubSeq(List, i + 1, Len(List)), i)
         ELSE RemoveStaleBreakpoints(List, i + 1)

\* FBlueprintEditorUtils::SupportsConstructionScript stands outside this
\* file: an actor-based blueprint that is not a macro library.
SupportsConstructionScript == bActorBased /\ BlueprintType # "BPTYPE_MacroLibrary"

\* FStructureEditorUtils::RemoveInvalidStructureMemberVariableFromBlueprint
\* stands outside this file; the specification has it remove the variables
\* whose structure no longer exists.
RemoveInvalidStructureMemberVariable(Variables) ==
    SelectSeq(Variables, LAMBDA v : v.VarType # "missingStruct")

\* The blueprint's fields that a load works on, as one record.
LoadedBlueprint ==
    [NewVariables |-> NewVariables, newGuids |-> newGuids,
     FunctionGraphs |-> FunctionGraphs, MacroGraphs |-> MacroGraphs,
     Breakpoints |-> Breakpoints, SimpleConstructionScript |-> SimpleConstructionScript,
     scsOuter |-> outerOf[ScsId], classScs |-> classTemplates.scs,
     scsTransactional |-> scsTransactional, Status |-> Status,
     log |-> <<>>, crashed |-> FALSE]

\* The statements of UBlueprint::Serialize after Super::Serialize, and those
\* of UBlueprint::PostLoad after Super::PostLoad, in the order of the code.
SerializeOrderAsNumbered == <<<<"pass", 1>>, <<"pass", 2>>, <<"pass", 3>>, <<"pass", 4>>>>

SerializeOrder == <<<<"pass", 1>>, <<"pass", 2>>, <<"pass", 4>>, <<"pass", 3>>>>

PostLoadOrder ==
    << <<"step", 1>>,      \* lines 439-443: the system version check
       <<"pass", 5>>, <<"pass", 6>>, <<"pass", 7>>, <<"pass", 8>>, <<"pass", 9>>,
       <<"pass", 10>>, <<"pass", 11>>,
       <<"step", 2>>,      \* line 511: UpdateOutOfDateAnimBlueprints
       <<"step", 3>>,      \* lines 514-519: macro graphs move to MacroGraphs
       <<"step", 4>>,      \* line 522: UpdateOldPureFunctions
       <<"step", 5>>,      \* line 526: UpdateStalePinWatches
       <<"pass", 12>>, <<"pass", 13>> >>

\* Line 440: the blueprint is of an older system version.
VersionCheckFailsAtCurrent(Version) == Version <= CurrentBlueprintSystemVersion

VersionCheckFails(Version) == Version < CurrentBlueprintSystemVersion

\* Whether a statement's condition lets it run (Ar is loading).
StepApplies(step, bp) ==
    CASE step = <<"pass", 1>> -> arVer < VER_UE4_BLUEPRINT_VARS_NOT_READ_ONLY
      [] step = <<"pass", 2>> -> arVer < VER_UE4_K2NODE_REFERENCEGUIDS
      [] step = <<"pass", 3>> -> arVer < VER_UE4_FIX_BLUEPRINT_VARIABLE_FLAGS
      [] step = <<"pass", 8>> -> SupportsConstructionScript
      [] step = <<"step", 3>> -> BlueprintType = "BPTYPE_MacroLibrary"
      [] OTHER -> TRUE

\* One statement's effect on the blueprint.  Passes 4 and 9 to 11, the
\* conversion of pass 12 and steps 2, 4 and 5 call code outside this file on
\* state that is not modelled.
StepEffect(step, bp) ==
    CASE step = <<"pass", 1>> -> [bp EXCEPT !.NewVariables = ClearReadOnly(@)]
      [] step = <<"pass", 2>> ->
            [bp EXCEPT !.NewVariables = AssignVarGuids(@, bp.newGuids),
                       !.newGuids = @ + Len(bp.NewVariables)]
      [] step = <<"pass", 3>> -> [bp EXCEPT !.NewVariables = FixEditOnTemplate(@)]
      [] step = <<"step", 1>> ->
            IF VersionCheckFails(BlueprintSystemVersion)
            THEN [bp EXCEPT !.Status = "BS_Error"] ELSE bp
      [] step = <<"pass", 5>> ->
            [bp EXCEPT !.FunctionGraphs = PurgeNullGraphs(@),
                       !.MacroGraphs = PurgeNullGraphs(@)]
      [] step = <<"pass", 6>> ->
            [bp EXCEPT !.FunctionGraphs = RemoveAutoConstructionScript(@, 1)]
      [] step = <<"pass", 7>> -> [bp EXCEPT !.Breakpoints = RemoveStaleBreakpoints(@, 1)]
      [] step = <<"pass", 8>> ->
            IF bp.SimpleConstructionScript = None
            THEN IF GeneratedClass["bp1"] = NoObject
                 THEN [bp EXCEPT !.crashed = TRUE]      \* line 476: check()
                 ELSE [bp EXCEPT !.SimpleConstructionScript = ScsId,
                                 !.scsOuter = "GeneratedClass",
                                 !.scsTransactional = TRUE,
                                 !.classScs = IF bpgClassValid THEN ScsId ELSE @]
            ELSE [bp EXCEPT !.scsTransactional = TRUE]
      [] step = <<"step", 3>> ->
            [bp EXCEPT !.MacroGraphs = @ \o bp.FunctionGraphs, !.FunctionGraphs = <<>>]
      [] step = <<"pass", 12>> ->
            \* lines 529-537: GetAllGraphs and the loop call through every
            \* entry of the graph lists; a null entry ends the run
            IF \E i \in 1..Len(bp.FunctionGraphs \o bp.MacroGraphs) :
                   (bp.FunctionGraphs \o bp.MacroGraphs)[i] = "null"
            THEN [bp EXCEPT !.crashed = TRUE] ELSE bp
      [] step = <<"pass", 13>> ->
            [bp EXCEPT !.NewVariables = RemoveInvalidStructureMemberVariable(@)]
      [] OTHER -> bp

\* The statements of a function run one after another; a failed check()
\* ends the run.
RECURSIVE RunSteps(_, _)
RunSteps(order, bp) ==
    IF order = <<>> \/ bp.crashed THEN bp
    ELSE IF StepApplies(Head(order), bp)
         THEN RunSteps(Tail(order),
                       [StepEffect(Head(order), bp) EXCEPT !.log = Append(@, Head(order))])
         ELSE RunSteps(Tail(order), bp)

\* What of the blueprint a load may change, for comparing two loads.
Snapshot(bp) ==
    [NewVariables |-> bp.NewVariables, FunctionGraphs |-> bp.FunctionGraphs,
     MacroGraphs |-> bp.MacroGraphs, Breakpoints |-> bp.Breakpoints,
     SimpleConstructionScript |-> bp.SimpleConstructionScript, scsOuter |-> bp.scsOuter,
     classScs |-> bp.classScs, scsTransactional |-> bp.scsTransactional,
     Status |-> bp.Status]

NoSnapshot ==
    [NewVariables |-> <<>>, FunctionGraphs |-> <<>>, MacroGraphs |-> <<>>,
     Breakpoints |-> <<>>, SimpleConstructionScript |-> None,
     scsOuter |-> "GeneratedClass", classScs |-> None, scsTransactional |-> FALSE,
     Status |-> "BS_Unknown"]

\* The fields of the record go back into the blueprint.
StoreLoaded(bp) ==
    /\ NewVariables' = bp.NewVariables
    /\ newGuids' = bp.newGuids
    /\ FunctionGraphs' = bp.FunctionGraphs
    /\ MacroGraphs' = bp.MacroGraphs
    /\ Breakpoints' = bp.Breakpoints
    /\ SimpleConstructionScript' = bp.SimpleConstructionScript
    /\ outerOf' = [outerOf EXCEPT ![ScsId] = bp.scsOuter]
    /\ classTemplates' = [classTemplates EXCEPT !.scs = bp.classScs]
    /\ scsTransactional' = bp.scsTransactional
    /\ Status' = bp.Status

\* UBlueprint::Serialize(Ar), Ar loading.  The archive holds the class
\* references the blueprint has.
SerializeLoading ==
    /\ loadPc = "Serialize"
    /\ \E bHasBeenRegenerated \in BOOLEAN :
          SerializeCore("bp1", TRUE, arVer, SkeletonGeneratedClass["bp1"],
                        GeneratedClass["bp1"], bHasBeenRegenerated)
    /\ lastOp' = [op |-> "load", ok |-> TRUE]
    /\ LET bp == RunSteps(SerializeOrder, LoadedBlueprint)
       IN  /\ StoreLoaded(bp)
           /\ passLog' = bp.log
    /\ loadPc' = "PostLoad"
    /\ UNCHANGED <<arVer, BlueprintType, bActorBased, BlueprintSystemVersion, loadRun,
                   afterFirstRun, statusAtEntry, atEntry, regenResult>>
    /\ UNCHANGED <<bpgClassValid, ComponentTemplates, Timelines, scsNodes, curvesOf,
                   packageDirty, bIsStillStale, bMigratedOwner, Curves, curvesLeft,
                   ownIdx, ownPc, ownResult, outerAtEntry, classAtEntry, renameLog>>
    /\ UNCHANGED <<conformVars, metaVars, debugVars>>

\* UBlueprint::PostLoad().  After the first load the blueprint is loaded
\* once more.
PostLoad ==
    /\ loadPc = "PostLoad"
    /\ LET bp == RunSteps(PostLoadOrder, LoadedBlueprint)
       IN  /\ StoreLoaded(bp)
           /\ passLog' = passLog \o bp.log
           /\ loadPc' = IF bp.crashed THEN "crashed" ELSE "done"
           /\ afterFirstRun' = IF loadRun = 1 /\ ~bp.crashed THEN Snapshot(bp)
                               ELSE afterFirstRun
    /\ UNCHANGED <<arVer, BlueprintType, bActorBased, BlueprintSystemVersion, loadRun,
                   statusAtEntry, atEntry, regenResult>>
    /\ UNCHANGED <<bpgClassValid, ComponentTemplates, Timelines, scsNodes, curvesOf,
                   packageDirty, bIsStillStale, bMigratedOwner, Curves, curvesLeft,
                   ownIdx, ownPc, ownResult, outerAtEntry, classAtEntry, renameLog>>
    /\ UNCHANGED <<conformVars, identVars, metaVars, debugVars>>

\* The blueprint is loaded again from the same archive.
LoadAgain ==
    /\ loadPc = "done"
    /\ loadRun = 1
    /\ loadRun' = 2
    /\ loadPc' = "Serialize"
    /\ passLog' = <<>>
    /\ statusAtEntry' = Status
    /\ atEntry' = Snapshot(LoadedBlueprint)
    /\ regenResult' = "none"
    /\ UNCHANGED <<arVer, NewVariables, newGuids, FunctionGraphs, MacroGraphs, Breakpoints,
                   scsTransactional, BlueprintType, bActorBased, BlueprintSystemVersion,
                   Status, afterFirstRun>>
    /\ UNCHANGED <<conformVars, ownerVars, identVars, metaVars, debugVars>>

\* UBlueprint::RegenerateClass hands the work to
\* FBlueprintEditorUtils::RegenerateBlueprintClass, which stands outside
\* this file; the specification has a failed regeneration set the status to
\* BS_Error and names no other change of the status.
RegenerateClass ==
    /\ loadPc = "done"
    /\ regenResult = "none"
    /\ \E bFailed \in BOOLEAN :
          /\ regenResult' = IF bFailed THEN "failed" ELSE "succeeded"
          /\ Status' = IF bFailed THEN "BS_Error" ELSE Status
    /\ UNCHANGED <<arVer, NewVariables, newGuids, FunctionGraphs, MacroGraphs, Breakpoints,
                   scsTransactional, BlueprintType, bActorBased, BlueprintSystemVersion,
                   passLog, loadRun, loadPc, afterFirstRun, statusAtEntry, atEntry>>
    /\ UNCHANGED <<conformVars, ownerVars, identVars, metaVars, debugVars>>

\* A blueprint as the linker hands it to Serialize.  The statements of
\* Serialize and pass 13 work on NewVariables under the archive version and
\* on nothing else; the other statements of PostLoad work on the graphs, the
\* breakpoints, the construction script and the status and on nothing else.
\* A blueprint at the start therefore varies in the one part or in the other.
LoadInit ==
    /\ \/ /\ arVer \in 0..MaxArVer
          /\ NewVariables \in FlagVariableLists \cup GuidVariableLists
          /\ FunctionGraphs = <<>>
          /\ MacroGraphs = <<>>
          /\ Breakpoints = <<>>
          /\ BlueprintType = "BPTYPE_Normal"
          /\ bActorBased = TRUE
          /\ BlueprintSystemVersion = CurrentBlueprintSystemVersion
          /\ GeneratedClass = [bp \in Blueprints |-> IF bp = "bp1" THEN "gc1" ELSE NoObject]
          /\ SimpleConstructionScript = ScsId
          /\ scsTransactional = TRUE
       \/ /\ arVer = MaxArVer
          /\ NewVariables = <<>>
          /\ FunctionGraphs \in GraphLists({"AutoConstructionScript", "UserFunction"}, MaxGraphs)
          /\ MacroGraphs \in GraphLists({"UserMacro"}, 1)
          /\ Breakpoints \in {<<>>, <<"null", "locatedA">>}
          /\ BlueprintType \in {"BPTYPE_Normal", "BPTYPE_MacroLibrary"}
          /\ bActorBased \in BOOLEAN
          /\ BlueprintType = "BPTYPE_MacroLibrary" => ~bActorBased
          /\ BlueprintSystemVersion \in 0..CurrentBlueprintSystemVersion
          /\ GeneratedClass \in { [bp \in Blueprints |-> IF bp = "bp1" THEN g ELSE NoObject]
                                  : g \in {NoObject, "gc1"} }
          /\ SimpleConstructionScript \in {None, ScsId}
          /\ scsTransactional \in BOOLEAN
          /\ SimpleConstructionScript = None => ~scsTransactional
       \/ /\ arVer = MaxArVer
          /\ NewVariables = <<>>
          /\ FunctionGraphs = <<>>
          /\ MacroGraphs = <<>>
          /\ Breakpoints \in BreakpointLists
          /\ BlueprintType = "BPTYPE_Normal"
          /\ bActorBased = TRUE
          /\ BlueprintSystemVersion = CurrentBlueprintSystemVersion
          /\ GeneratedClass = [bp \in Blueprints |-> IF bp = "bp1" THEN "gc1" ELSE NoObject]
          /\ SimpleConstructionScript = ScsId
          /\ scsTransactional = TRUE
    /\ newGuids = 0
    /\ Status = "BS_UpToDate"
    /\ passLog = <<>>
    /\ loadRun = 1
    /\ loadPc = "Serialize"
    /\ afterFirstRun = NoSnapshot
    /\ statusAtEntry = Status
    /\ regenResult = "none"
    \* the objects, and the blueprint's fields that a load leaves alone
    /\ objStore = ObjectsAtStart({"gc1"}, <<47, 80, 50>>)
    /\ SkeletonGeneratedClass = [bp \in Blueprints |-> NoObject]
    /\ rfTransient = {}
    /\ BlueprintGuid = [bp \in Blueprints |-> StoredGuid]
    /\ guidPath = [bp \in Blueprints |-> <<>>]
    /\ lastOp = [op |-> "none", ok |-> TRUE]
    /\ bTraceRenames = FALSE
    /\ renameTrace = NoTrace
    /\ bpgClassValid = (GeneratedClass["bp1"] # NoObject)
    /\ ComponentTemplates = <<>>
    /\ Timelines = <<>>
    /\ scsNodes = <<>>
    /\ curvesOf = [o \in CompIds \cup TimelineIds |-> {}]
    /\ outerOf = [o \in OwnerObjects |-> "GeneratedClass"]
    /\ classTemplates = [components |-> <<>>, timelines |-> <<>>,
                         scs |-> IF bpgClassValid THEN SimpleConstructionScript ELSE None]
    /\ packageDirty = FALSE
    /\ bIsStillStale = FALSE
    /\ bMigratedOwner = FALSE
    /\ Curves = {}
    /\ curvesLeft = {}
    /\ ownIdx = 1
    /\ ownPc = "done"
    /\ ownResult = "none"
    /\ outerAtEntry = outerOf
    /\ classAtEntry = classTemplates
    /\ renameLog = <<>>
    /\ atEntry = Snapshot(LoadedBlueprint)

LoadIdleButType ==
    /\ arVer = 0
    /\ NewVariables = <<>>
    /\ newGuids = 0
    /\ FunctionGraphs = <<>>
    /\ MacroGraphs = <<>>
    /\ Breakpoints = <<>>
    /\ scsTransactional = FALSE
    /\ bActorBased = FALSE
    /\ BlueprintSystemVersion = CurrentBlueprintSystemVersion
    /\ Status = "BS_UpToDate"
    /\ passLog = <<>>
    /\ loadRun = 1
    /\ loadPc = "idle"
    /\ afterFirstRun = NoSnapshot
    /\ statusAtEntry = "BS_UpToDate"
    /\ atEntry = NoSnapshot
    /\ regenResult = "none"

LoadIdle == LoadIdleButType /\ BlueprintType = "BPTYPE_Normal"

LoadNext == SerializeLoading \/ PostLoad \/ RegenerateClass \/ LoadAgain

(***************************************************************************)
(*        FBPVariableDescription: the metadata of a variable               *)
(*                     (Blueprint.cpp lines 133-178)                       *)
(***************************************************************************)
MaxMetaKeys == 3
MetaKeys == 1..MaxMetaKeys          \* the FNames used as keys
MetaValues == {"a", "b"}            \* the FStrings used as values
INDEX_NONE == -1

\* Lines 133-143: the index, counted from 0, of the first entry with the
\* key, or INDEX_NONE.
RECURSIVE FindFrom(_, _, _)
FindFrom(Array, Key, i) ==
    IF i >= Len(Array) THEN INDEX_NONE
    ELSE IF Array[i + 1].DataKey = Key THEN i
    ELSE FindFrom(Array, Key, i + 1)

FindNoEntry(Array, Key) == INDEX_NONE

FindMetaDataEntryIndexForKey(Array, Key) == FindFrom(Array, Key, 0)

\* Lines 145-148.
HasMetaData(Array, Key) == FindMetaDataEntryIndexForKey(Array, Key) # INDEX_NONE

\* Lines 151-156; the caller has checked HasMetaData.
GetMetaData(Array, Key) == Array[FindMetaDataEntryIndexForKey(Array, Key) + 1].DataValue

\* TArray::RemoveAt.
RemoveAt(Array, Index) ==
    SubSeq(Array, 1, Index) \o SubSeq(Array, Index + 2, Len(Array))

\* Lines 158-169.
SetMetaData(Key, Value) ==
    LET EntryIndex == FindMetaDataEntryIndexForKey(MetaDataArray, Key)
    IN  /\ Len(MetaDataArray) <= MaxMetaKeys       \* the array never gets longer
        /\ MetaDataArray' =
               IF EntryIndex # INDEX_NONE
               THEN [MetaDataArray EXCEPT ![EntryIndex + 1].DataValue = Value]
               ELSE Append(MetaDataArray, [DataKey |-> Key, DataValue |-> Value])
        /\ metaAtEntry' = MetaDataArray
        /\ metaCall' = [op |-> "SetMetaData", Key |-> Key, Value |-> Value]
        /\ UNCHANGED notMetaVars

\* Lines 171-178.
RemoveMetaData(Key) ==
    LET EntryIndex == FindMetaDataEntryIndexForKey(MetaDataArray, Key)
    IN  /\ MetaDataArray' =
               IF EntryIndex # INDEX_NONE THEN RemoveAt(MetaDataArray, EntryIndex)
               ELSE MetaDataArray
        /\ metaAtEntry' = MetaDataArray
        /\ metaCall' = [op |-> "RemoveMetaData", Key |-> Key, Value |-> "a"]
        /\ UNCHANGED notMetaVars

MetaIdle ==
    /\ MetaDataArray = <<>>
    /\ metaAtEntry = <<>>
    /\ metaCall = [op |-> "none", Key |-> 1, Value |-> "a"]

MetaNext ==
    \/ \E Key \in MetaKeys, Value \in MetaValues : SetMetaData(Key, Value)
    \/ \E Key \in MetaKeys : RemoveMetaData(Key)

(***************************************************************************)
(*          The object being debugged (Blueprint.cpp lines 553-640)        *)
(***************************************************************************)
\* The objects that can be offered as debug target, the worlds, and the
\* outer of each object: actorA lives in a level of worldA, actorB directly
\* in worldB, otherA in the level of worldA, and asset in a package.
DebugObjects == {"actorA", "actorB", "otherA", "asset"}
DebugWorlds == {"worldA", "worldB"}
GetOuter(Object) ==
    CASE Object = "actorA" -> "levelA"
      [] Object = "otherA" -> "levelA"
      [] Object = "levelA" -> "worldA"
      [] Object = "actorB" -> "worldB"
      [] Object = "asset" -> "package"
      [] OTHER -> NoObject

\* NewObject->IsA(this->GeneratedClass): otherA is of another class.
InstancesOfGeneratedClass == {"actorA", "actorB", "asset"}
IsA(Object) == Object \in InstancesOfGeneratedClass

\* Lines 557-569: the first UWorld among the outers of the object.
RECURSIVE FirstWorldFrom(_)
FirstWorldFrom(ObjOuter) ==
    IF ObjOuter = NoObject THEN NoObject
    ELSE IF ObjOuter \in DebugWorlds THEN ObjOuter
    ELSE FirstWorldFrom(GetOuter(ObjOuter))

\* Lines 553-576.  A call works on the target, the worlds' associations and
\* the notifications issued so far.
DebuggingWorldRegistrationHelper(st, ObjectProvidingWorld, ValueToRegister) ==
    IF ObjectProvidingWorld = NoObject THEN st
    ELSE LET ObjWorld == FirstWorldFrom(GetOuter(ObjectProvidingWorld))
         IN  IF ObjWorld = NoObject THEN st
             ELSE [st EXCEPT !.association[ObjWorld] = ValueToRegister,
                             !.calls = Append(@, <<ObjWorld, ValueToRegister>>)]

\* TWeakObjectPtr::Get(): NULL once the object is gone.  Lines 629-633 test
\* RF_PendingKill on what Get() returned, so an object pending kill is still
\* handed out.
WeakGet(Object) ==
    IF Object = NoObject \/ objectState[Object] = "destroyed" THEN NoObject ELSE Object

\* Line 598.
InstanceCheckNever(NewObject) == FALSE

InstanceCheckApplies(NewObject) ==
    NewObject # NoObject /\ ~GCompilingBlueprint /\ BlueprintType # "BPTYPE_MacroLibrary"

\* Lines 583-615.
SetObjectBeingDebuggedIn(st, NewObject) ==
    LET OldObject == WeakGet(st.Current)
    IN  IF OldObject # NoObject /\ OldObject = NewObject
        THEN st                                                \* nothing changed
        ELSE LET unregistered ==
                     IF OldObject # NoObject
                     THEN DebuggingWorldRegistrationHelper(st, OldObject, NoObject)
                     ELSE st
                 Checked ==
                     IF InstanceCheckApplies(NewObject) /\ ~IsA(NewObject)
                     THEN NoObject ELSE NewObject
                 updated == [unregistered EXCEPT !.Current = Checked]
             IN  IF Checked # NoObject
                 THEN DebuggingWorldRegistrationHelper(updated, Checked, Checked)
                 ELSE updated

DebugState ==
    [Current |-> CurrentObjectBeingDebugged, association |-> debuggingAssociation,
     calls |-> <<>>]

NoDebugCall ==
    [op |-> "none", NewObject |-> NoObject, OldObject |-> NoObject,
     bCompiling |-> FALSE, calls |-> <<>>, result |-> NoObject]

SetObjectBeingDebugged(NewObject) ==
    /\ NewObject # NoObject => objectState[NewObject] # "destroyed"
    /\ LET st == SetObjectBeingDebuggedIn(DebugState, NewObject)
       IN  /\ CurrentObjectBeingDebugged' = st.Current
           /\ debuggingAssociation' = st.association
           /\ debugCall' = [op |-> "SetObjectBeingDebugged", NewObject |-> NewObject,
                            OldObject |-> WeakGet(CurrentObjectBeingDebugged),
                            bCompiling |-> GCompilingBlueprint,
                            calls |-> st.calls, result |-> NoObject]
    /\ UNCHANGED <<objectState, GCompilingBlueprint>>
    /\ UNCHANGED notDebugVars

\* Lines 627-640.
GetObjectBeingDebugged ==
    LET DebugObj == WeakGet(CurrentObjectBeingDebugged)
        bPendingKill == DebugObj # NoObject /\ objectState[DebugObj] = "pendingKill"
        st == IF bPendingKill THEN SetObjectBeingDebuggedIn(DebugState, NoObject)
              ELSE DebugState
    IN  /\ CurrentObjectBeingDebugged' = st.Current
        /\ debuggingAssociation' = st.association
        /\ debugCall' = [op |-> "GetObjectBeingDebugged", NewObject |-> NoObject,
                         OldObject |-> DebugObj, bCompiling |-> GCompilingBlueprint,
                         calls |-> st.calls,
                         result |-> IF bPendingKill THEN NoObject ELSE DebugObj]
        /\ UNCHANGED <<objectState, GCompilingBlueprint>>
        /\ UNCHANGED notDebugVars

\* What happens to the objects and to the global between the calls: an
\* object is marked RF_PendingKill, an object pending kill is collected, a
\* compilation begins or ends.
MarkPendingKill(Object) ==
    /\ objectState[Object] = "alive"
    /\ objectState' = [objectState EXCEPT ![Object] = "pendingKill"]
    /\ debugCall' = NoDebugCall
    /\ UNCHANGED <<CurrentObjectBeingDebugged, GCompilingBlueprint, debuggingAssociation>>
    /\ UNCHANGED notDebugVars

CollectGarbage(Object) ==
    /\ objectState[Object] = "pendingKill"
    /\ objectState' = [objectState EXCEPT ![Object] = "destroyed"]
    /\ debugCall' = NoDebugCall
    /\ UNCHANGED <<CurrentObjectBeingDebugged, GCompilingBlueprint, debuggingAssociation>>
    /\ UNCHANGED notDebugVars

ToggleCompiling ==
    /\ GCompilingBlueprint' = ~GCompilingBlueprint
    /\ debugCall' = NoDebugCall
    /\ UNCHANGED <<CurrentObjectBeingDebugged, objectState, debuggingAssociation>>
    /\ UNCHANGED notDebugVars

DebugIdle ==
    /\ CurrentObjectBeingDebugged = NoObject
    /\ objectState = [o \in DebugObjects |-> "alive"]
    /\ GCompilingBlueprint = FALSE
    /\ debuggingAssociation = [w \in DebugWorlds |-> NoObject]
    /\ debugCall = NoDebugCall

DebugInit ==
    /\ DebugIdle
    /\ BlueprintType \in {"BPTYPE_Normal", "BPTYPE_MacroLibrary"}

DebugNext ==
    \/ \E NewObject \in DebugObjects \cup {NoObject} : SetObjectBeingDebugged(NewObject)
    \/ GetObjectBeingDebugged
    \/ \E Object \in DebugObjects : MarkPendingKill(Object)
    \/ \E Object \in DebugObjects : CollectGarbage(Object)
    \/ ToggleCompiling

(***************************************************************************)
(*                          The specifications                             *)
(***************************************************************************)
InitConform == ConformInit /\ OwnerIdle /\ IdentIdle /\ LoadIdle /\ MetaIdle /\ DebugIdle
SpecConform == InitConform /\ [][ConformNext]_vars

InitOwner == OwnerInit /\ ConformIdle /\ IdentIdle /\ LoadIdle /\ MetaIdle /\ DebugIdle
SpecOwner == InitOwner /\ [][OwnerNext]_vars

InitIdent == IdentInit /\ ConformIdle /\ OwnerIdle /\ LoadIdle /\ MetaIdle /\ DebugIdle
SpecIdent == InitIdent /\ [][IdentNext]_vars

InitRename == RenameInit /\ ConformIdle /\ OwnerIdle /\ LoadIdle /\ MetaIdle /\ DebugIdle
SpecRename == InitRename /\ [][IdentNext]_vars

\* Renames alone, on a blueprint that has its classes.
RenameNext == Rename

\* RenameInit with the trace of renames kept.
RenameCallsInit ==
    /\ objStore \in {ObjectsAtStart({"gc1", "sk1"}, pkg2) : pkg2 \in Packages}
    /\ GeneratedClass \in { [bp \in Blueprints |-> IF bp = "bp1" THEN g ELSE NoObject]
                            : g \in {NoObject, "gc1"} }
    /\ SkeletonGeneratedClass \in { [bp \in Blueprints |-> IF bp = "bp1" THEN k ELSE NoObject]
                                    : k \in {NoObject, "sk1", "gc1"} }
    /\ SkeletonGeneratedClass["bp1"] = "gc1" => GeneratedClass["bp1"] = "gc1"
    /\ rfTransient = {}
    /\ BlueprintGuid = [bp \in Blueprints |-> StoredGuid]
    /\ guidPath = [bp \in Blueprints |-> <<>>]
    /\ lastOp = [op |-> "none", ok |-> TRUE]
    /\ bTraceRenames = TRUE
    /\ renameTrace = NoTrace

InitRenameCalls == RenameCallsInit /\ ConformIdle /\ OwnerIdle /\ LoadIdle /\ MetaIdle /\ DebugIdle
SpecRenameCalls == InitRenameCalls /\ [][RenameNext]_vars

InitLoad == LoadInit /\ ConformIdle /\ MetaIdle /\ DebugIdle
SpecLoad == InitLoad /\ [][LoadNext]_vars

InitMeta == MetaIdle /\ ConformIdle /\ OwnerIdle /\ IdentIdle /\ LoadIdle /\ DebugIdle
SpecMeta == InitMeta /\ [][MetaNext]_vars

InitDebug ==
    DebugInit /\ ConformIdle /\ OwnerIdle /\ IdentIdle /\ LoadIdleButType /\ MetaIdle
SpecDebug == InitDebug /\ [][DebugNext]_vars

(***************************************************************************)
(*                Properties of ConformNativeComponents                    *)
(***************************************************************************)
\* Positions of the native layout / of the blueprint layout at entry that
\* carry a given name.
NewNamed(n) == {j \in 1..Len(NewNativeComponents) : NewNativeComponents[j].name = n}
OldNamedAtEntry(n) == {k \in 1..Len(OldAtEntry) : OldAtEntry[k].name = n}

\* The loop has finished its iteration for position i.
ConformProcessed(i) == cdoIsActor /\ confPc # "entry" /\ i < confIdx

\* C2 (invariant I2): every component of the blueprint layout has a parent
\* reference that is null or names a component of that same layout, with
\* the same owner; it never names a component of the native layout.
C2_ParentsStayInOldLayout ==
    \A i \in 1..Len(OldNativeComponents) :
        LET p == OldNativeComponents[i].parent
        IN  \/ p = NullRef
            \/ /\ p.list = "old"
               /\ p.idx \in 1..Len(OldNativeComponents)
               /\ OldNativeComponents[p.idx].outer = OldNativeComponents[i].outer

\* The repair returned after rewriting some parent to a non-null component.
C2_Witness ==
    /\ confPc = "done"
    /\ \E i \in 1..Len(OldNativeComponents) :
          /\ OldNativeComponents[i].parent # OldAtEntry[i].parent
          /\ OldNativeComponents[i].parent # NullRef

C8_OrphansUntouched ==
    /\ Len(OldNativeComponents) = Len(OldAtEntry)
    /\ \A i \in 1..Len(OldAtEntry) :
          (NewNamed(OldAtEntry[i].name) = {} \/ ~OldAtEntry[i].scene)
          => OldNativeComponents[i] = OldAtEntry[i]

\* The repair returned, and it met an orphan that has a parent.
C8_Witness ==
    /\ confPc = "done"
    /\ cdoIsActor
    /\ \E i \in 1..Len(OldAtEntry) :
          /\ NewNamed(OldAtEntry[i].name) = {}
          /\ OldAtEntry[i].parent # NullRef
          /\ OldNativeComponents[i] = OldAtEntry[i]

\* C9 (no hard error): the repair never reaches a failed checked cast.
C9_NeverHardError == confPc # "crashed"

C5_GuidOnlySetOnLoadWhenInvalid ==
    [][\A bp \in Blueprints :
          BlueprintGuid'[bp] # BlueprintGuid[bp] =>
              /\ lastOp'.op = "load"
              /\ ~IsValidGuid(BlueprintGuid[bp])]_vars

\* C5's case: a blueprint was given its guid under one path, was renamed
\* to another path and has been loaded again, and its guid is the one it had.
C5_Witness ==
    \E bp \in Blueprints :
        /\ lastOp.op = "load"
        /\ guidPath[bp] # <<>>
        /\ guidPath[bp] # GetPathName(bp)
        /\ IsValidGuid(BlueprintGuid[bp])

\* C6: the guid generated for a blueprint depends on the path name it was
\* generated under and on nothing else: two blueprints whose guids were
\* generated under the same path hold the same guid, and the four words of
\* a generated guid are bytes 5..20 of the digest of the path's character
\* bytes (two per character, low byte first), four bytes to a word.
C6_GuidIsFunctionOfPath ==
    /\ \A b1, b2 \in Blueprints :
          (guidPath[b1] # <<>> /\ guidPath[b1] = guidPath[b2]) =>
              BlueprintGuid[b1] = BlueprintGuid[b2]
    /\ \A bp \in Blueprints :
          guidPath[bp] # <<>> =>
              LET digest == FSHA1HashBuffer(TCharBytes(guidPath[bp]))
              IN  /\ BlueprintGuid[bp].A = <<digest[5], digest[6], digest[7], digest[8]>>
                  /\ BlueprintGuid[bp].B = <<digest[9], digest[10], digest[11], digest[12]>>
                  /\ BlueprintGuid[bp].C = <<digest[13], digest[14], digest[15], digest[16]>>
                  /\ BlueprintGuid[bp].D = <<digest[17], digest[18], digest[19], digest[20]>>

\* C6's case: two different blueprints have had their guids generated under
\* one and the same path.
C6_Witness ==
    \E b1, b2 \in Blueprints :
        /\ b1 # b2
        /\ guidPath[b1] # <<>>
        /\ guidPath[b1] = guidPath[b2]

(***************************************************************************)
(*                UBlueprint::Rename: properties of SpecRename             *)
(***************************************************************************)
\* C10: a Rename that returns false leaves every object (the blueprint, its
\* generated class, its skeleton class and the object in its way) with the
\* name and the outer it had before the call.
C10_RenameAtomicOnFailure ==
    [][(lastOp'.op = "rename" /\ ~lastOp'.ok) => objStore' = objStore]_vars

(***************************************************************************)
(*                 The load pipeline: properties of SpecLoad               *)
(***************************************************************************)
\* The blueprint as it is now, in the form it was recorded in after the
\* first load.
CurrentSnapshot == Snapshot(LoadedBlueprint)

\* C3: when the blueprint has been loaded a second time (Serialize in
\* loading mode, then PostLoad), it is as the first load left it: variable
\* flags, variable guids, graph lists, breakpoints, construction script and
\* status.
C3_SecondLoadChangesNothing ==
    (loadRun = 2 /\ loadPc = "done") => CurrentSnapshot = afterFirstRun

\* The documented passes among the steps logged so far.
PassesLogged == SelectSeq(passLog, LAMBDA step : step[1] = "pass")

\* C4 as stated: the passes of a load run in the order of their numbers,
\* 1 to 13.
C4_AsClaimed ==
    \A i, j \in 1..Len(PassesLogged) :
        i < j => PassesLogged[i][2] < PassesLogged[j][2]

\* C4: the passes of a load run in one fixed order, which is 1, 2, 4, 3, 5,
\* 6, 7, 8, 9, 10, 11, 12, 13: the ancestor blueprints are preloaded (4)
\* before the edit-on-template flags are fixed (3), and every other pass
\* runs in the order of its number.
C4_PassesRunInCodeOrder ==
    /\ \A i, j \in 1..Len(PassesLogged) :
          i < j =>
              LET a == PassesLogged[i][2]
                  b == PassesLogged[j][2]
              IN  IF {a, b} = {3, 4} THEN a = 4 /\ b = 3 ELSE a < b
    /\ loadPc = "done" =>
          \A n \in 4..13 : n # 8 => \E i \in 1..Len(PassesLogged) : PassesLogged[i][2] = n

\* C4's case: a load has run to its end and has run both pass 3 and pass 4.
C4_Witness ==
    /\ loadPc = "done"
    /\ \E i, j \in 1..Len(PassesLogged) :
          PassesLogged[i][2] = 3 /\ PassesLogged[j][2] = 4
    /\ \E i \in 1..Len(PassesLogged) : PassesLogged[i][2] = 13

(***************************************************************************)
(*          UBlueprint::Rename: properties of SpecRenameCalls              *)
(***************************************************************************)
\* The place of a call in the calls of the last Rename, 0 when absent.
CallIndex(call) ==
    IF \E i \in 1..Len(renameTrace.calls) : renameTrace.calls[i] = call
    THEN CHOOSE i \in 1..Len(renameTrace.calls) : renameTrace.calls[i] = call
    ELSE 0

Called(call) == CallIndex(call) # 0

\* The renames of its classes that a Rename of the blueprint has to make.
ClassRenamesDue ==
    LET gen == GeneratedClass[renameTrace.bp]
        skel == SkeletonGeneratedClass[renameTrace.bp]
    IN  (IF gen # NoObject THEN <<"GeneratedClass->Rename">> ELSE <<>>)
            \o (IF skel # NoObject /\ skel # gen
                THEN <<"SkeletonGeneratedClass->Rename">> ELSE <<>>)

\* The calls of the last Rename that come before Super::Rename.
CallsBeforeSuper == SubSeq(renameTrace.calls, 1, CallIndex("Super::Rename") - 1)

\* C11 as stated: the blueprint itself is renamed only after the generated
\* class and the skeleton class it has have been renamed, and the compile
\* runs after exactly the successful renames that were not test renames.
C11_AsClaimed ==
    lastOp.op = "rename" =>
        /\ Called("Super::Rename") => CallsBeforeSuper = ClassRenamesDue
        /\ Called("CompileBlueprint") =>
              CallIndex("Super::Rename") < CallIndex("CompileBlueprint")
        /\ Called("CompileBlueprint") <=> (lastOp.ok /\ "REN_Test" \notin renameTrace.flags)

\* C11: unless the caller passed REN_SkipGeneratedClasses, the blueprint
\* itself is renamed only after the generated class and the skeleton class
\* it has have been renamed, in this order (with that flag no class is
\* renamed); the compile comes after the rename of the blueprint and runs
\* exactly when the rename succeeded and the caller passed neither REN_Test
\* nor REN_DoNotDirty, so never after a failed rename.
C11_RenameCallsAndCompile ==
    lastOp.op = "rename" =>
        /\ Called("Super::Rename") =>
              CallsBeforeSuper = IF "REN_SkipGeneratedClasses" \in renameTrace.flags
                                 THEN <<>> ELSE ClassRenamesDue
        /\ Called("CompileBlueprint") =>
              /\ CallIndex("Super::Rename") < CallIndex("CompileBlueprint")
              /\ Called("Super::Rename")
        /\ Called("CompileBlueprint") <=>
              (lastOp.ok /\ "REN_Test" \notin renameTrace.flags
                  /\ "REN_DoNotDirty" \notin renameTrace.flags)
        /\ ~lastOp.ok => ~Called("CompileBlueprint")

\* C11's case: a rename of a blueprint with both classes has renamed the
\* generated class, the skeleton class and the blueprint and has compiled.
C11_Witness ==
    /\ lastOp.op = "rename"
    /\ lastOp.ok
    /\ renameTrace.calls = <<"GeneratedClass->Rename", "SkeletonGeneratedClass->Rename",
                        "Super::Rename", "CompileBlueprint">>

C13_NoPassEndsTheLoad == loadPc # "crashed"

(***************************************************************************)
(*        The passes of Serialize on variables: properties of SpecLoad     *)
(***************************************************************************)
\* The flags of the variables other than the given one.
OtherFlags(Variables, flag) ==
    [i \in DOMAIN Variables |-> Variables[i].PropertyFlags \ {flag}]

\* C14: when Serialize has loaded a blueprint from an archive whose version
\* is below VER_UE4_BLUEPRINT_VARS_NOT_READ_ONLY no variable is read-only,
\* and the read-only pass changes no other flag of any variable; from an
\* archive at or above that version every variable is read-only exactly if
\* it was before.
C14_ReadOnlyClearedBelowThreshold ==
    loadPc = "PostLoad" =>
        /\ Len(NewVariables) = Len(atEntry.NewVariables)
        /\ \A i \in 1..Len(NewVariables) :
              "CPF_BlueprintReadOnly" \in NewVariables[i].PropertyFlags <=>
                  /\ ~(arVer < VER_UE4_BLUEPRINT_VARS_NOT_READ_ONLY)
                  /\ "CPF_BlueprintReadOnly" \in atEntry.NewVariables[i].PropertyFlags
        /\ OtherFlags(ClearReadOnly(atEntry.NewVariables), "CPF_BlueprintReadOnly")
               = OtherFlags(atEntry.NewVariables, "CPF_BlueprintReadOnly")
        /\ (<<"pass", 1>> \in {passLog[k] : k \in 1..Len(passLog)})
               <=> arVer < VER_UE4_BLUEPRINT_VARS_NOT_READ_ONLY

\* C14's case: a blueprint with a read-only variable that has another flag
\* too has been loaded from an archive below the threshold.
C14_Witness ==
    /\ loadPc = "PostLoad"
    /\ arVer < VER_UE4_BLUEPRINT_VARS_NOT_READ_ONLY
    /\ \E i \in 1..Len(atEntry.NewVariables) :
          /\ atEntry.NewVariables[i].PropertyFlags
                 = {"CPF_BlueprintReadOnly", "CPF_DisableEditOnTemplate"}
          /\ atEntry.NewVariables[i].VarType = "actorClass"
          /\ NewVariables[i].PropertyFlags = {"CPF_DisableEditOnTemplate"}

\* C15: after Serialize every variable that carried a valid guid when the
\* load began still carries that guid.
C15_ValidGuidKept ==
    loadPc = "PostLoad" =>
        \A i \in 1..Len(atEntry.NewVariables) :
            atEntry.NewVariables[i].VarGuid # InvalidVarGuid =>
                NewVariables[i].VarGuid = atEntry.NewVariables[i].VarGuid

\* The variables as the read-only pass leaves them for the later passes.
AfterReadOnlyPass ==
    IF arVer < VER_UE4_BLUEPRINT_VARS_NOT_READ_ONLY
    THEN ClearReadOnly(atEntry.NewVariables) ELSE atEntry.NewVariables

\* C16: when Serialize has read an archive whose version is below
\* VER_UE4_FIX_BLUEPRINT_VARIABLE_FLAGS, a variable has
\* CPF_DisableEditOnTemplate exactly if its type refers to a valid class
\* that descends from AActor, whatever the flag was before, and the pass
\* changed no other flag; at or above that version the flag is as it was.
C16_EditOnTemplateIsToggle ==
    loadPc = "PostLoad" =>
        /\ Len(NewVariables) = Len(atEntry.NewVariables)
        /\ \A i \in 1..Len(NewVariables) :
              "CPF_DisableEditOnTemplate" \in NewVariables[i].PropertyFlags <=>
                  IF arVer < VER_UE4_FIX_BLUEPRINT_VARIABLE_FLAGS
                  THEN NewVariables[i].VarType = "actorClass"
                  ELSE "CPF_DisableEditOnTemplate" \in atEntry.NewVariables[i].PropertyFlags
        /\ OtherFlags(NewVariables, "CPF_DisableEditOnTemplate")
               = OtherFlags(AfterReadOnlyPass, "CPF_DisableEditOnTemplate")

\* C16's case: the pass has cleared the flag of a variable that is not of an
\* actor class and kept that variable's read-only flag, and has set the flag
\* of a variable of an actor class.
C16_Witness ==
    /\ loadPc = "PostLoad"
    /\ arVer < VER_UE4_FIX_BLUEPRINT_VARIABLE_FLAGS
    /\ arVer >= VER_UE4_BLUEPRINT_VARS_NOT_READ_ONLY
    /\ Len(NewVariables) = 2
    /\ atEntry.NewVariables[1].VarType = "otherClass"
    /\ atEntry.NewVariables[1].PropertyFlags
           = {"CPF_BlueprintReadOnly", "CPF_DisableEditOnTemplate"}
    /\ NewVariables[1].PropertyFlags = {"CPF_BlueprintReadOnly"}
    /\ atEntry.NewVariables[2].VarType = "actorClass"
    /\ atEntry.NewVariables[2].PropertyFlags = {}
    /\ NewVariables[2].PropertyFlags = {"CPF_DisableEditOnTemplate"}

(***************************************************************************)
(*                 The passes of PostLoad: properties of SpecLoad          *)
(***************************************************************************)
HasLocation(Breakpoint) == ~IsStale(Breakpoint)

\* C17: when PostLoad has run, the breakpoint list holds exactly the
\* breakpoints that had a location when the load began, in the order they
\* had then: no null entry and no breakpoint without a location is left,
\* also where stale entries followed each other or ended the list.
C17_ExactlyStaleBreakpointsDropped ==
    loadPc = "done" => Breakpoints = SelectSeq(atEntry.Breakpoints, HasLocation)

\* C17's case: PostLoad has run on a list with two stale entries in a row at
\* its end, and on a list with a stale entry between two located ones.
C17_Witness ==
    /\ loadPc = "done"
    /\ \/ /\ atEntry.Breakpoints = <<"locatedB", "null", "noLocation">>
          /\ Breakpoints = <<"locatedB">>
       \/ /\ atEntry.Breakpoints = <<"locatedB", "noLocation", "locatedA">>
          /\ Breakpoints = <<"locatedB", "locatedA">>

\* C18: when PostLoad has been called on a blueprint whose type supports a
\* construction script, the blueprint has a construction script and that
\* script is transactional.
C18_ConstructionScriptEnsured ==
    (loadPc \in {"done", "crashed"} /\ SupportsConstructionScript) =>
        /\ SimpleConstructionScript # None
        /\ scsTransactional

(***************************************************************************)
(*               The metadata of a variable: properties of SpecMeta        *)
(***************************************************************************)
KeysOf(Array) == [i \in DOMAIN Array |-> Array[i].DataKey]
WithoutKey(Array, Key) == SelectSeq(Array, LAMBDA Entry : Entry.DataKey # Key)

\* C19: from the empty array, after any sequence of SetMetaData and
\* RemoveMetaData calls no two entries have one key.  After
\* SetMetaData(K, V) HasMetaData(K) holds and GetMetaData(K) is V, the
\* entries of the other keys are what and where they were, and K stays in
\* its place if it was there; after RemoveMetaData(K) HasMetaData(K) does
\* not hold and the entries of the other keys are what and where they were;
\* RemoveMetaData of a key that is not there leaves the array as it was.
C19_MetaDataIsKeyUniqueMap ==
    /\ \A i, j \in DOMAIN MetaDataArray :
           MetaDataArray[i].DataKey = MetaDataArray[j].DataKey => i = j
    /\ metaCall.op = "SetMetaData" =>
           /\ HasMetaData(MetaDataArray, metaCall.Key)
           /\ GetMetaData(MetaDataArray, metaCall.Key) = metaCall.Value
           /\ WithoutKey(MetaDataArray, metaCall.Key) = WithoutKey(metaAtEntry, metaCall.Key)
           /\ SubSeq(KeysOf(MetaDataArray), 1, Len(metaAtEntry)) = KeysOf(metaAtEntry)
    /\ metaCall.op = "RemoveMetaData" =>
           /\ ~HasMetaData(MetaDataArray, metaCall.Key)
           /\ MetaDataArray = WithoutKey(metaAtEntry, metaCall.Key)
           /\ ~HasMetaData(metaAtEntry, metaCall.Key) => MetaDataArray = metaAtEntry

\* C19's case: SetMetaData has replaced the value of the middle one of
\* three entries.
C19_Witness ==
    /\ metaCall.op = "SetMetaData"
    /\ Len(metaAtEntry) = 3
    /\ metaAtEntry[2].DataKey = metaCall.Key
    /\ metaAtEntry[2].DataValue # metaCall.Value
    /\ MetaDataArray[2].DataValue = metaCall.Value

(***************************************************************************)
(*               The object being debugged: properties of SpecDebug        *)
(***************************************************************************)
\* The notification a call of DebuggingWorldRegistrationHelper issues.
NotificationFor(ObjectProvidingWorld, ValueToRegister) ==
    IF ObjectProvidingWorld # NoObject
           /\ FirstWorldFrom(GetOuter(ObjectProvidingWorld)) # NoObject
    THEN << <<FirstWorldFrom(GetOuter(ObjectProvidingWorld)), ValueToRegister>> >>
    ELSE <<>>

\* The objects that still exist and that some world has as this blueprint's
\* debug target.
RegisteredObjects ==
    {debuggingAssociation[w] : w \in DebugWorlds}
        \ ({NoObject} \cup {o \in DebugObjects : objectState[o] = "destroyed"})

\* An object that is not of the generated class was offered outside of a
\* compilation to a blueprint that is not a macro library.
ForeignObjectOffered ==
    /\ debugCall.op = "SetObjectBeingDebugged"
    /\ debugCall.NewObject # NoObject
    /\ ~IsA(debugCall.NewObject)
    /\ ~debugCall.bCompiling
    /\ BlueprintType # "BPTYPE_MacroLibrary"

RenameAttempted == {renameLog[i][1] : i \in 1..Len(renameLog)}
EveryRenameSucceeded == \A i \in 1..Len(renameLog) : renameLog[i][2]

\* Nothing the function looks at was owned by the blueprint at entry.
NothingOwnedByBlueprint == \A o \in OwnerObjects : outerAtEntry[o] # "Blueprint"

\* C21: ChangeOwnerOfTemplates returns true exactly if every Rename it
\* attempted succeeded; without a blueprint generated class, or with nothing
\* owned by the blueprint, it returns true and has attempted no Rename and
\* changed no owner, no list of the class and no package; an object the
\* class owned at entry is never renamed and stays the class's; and once a
\* component template, timeline template, the construction script or a
\* node's template has been renamed, the class's component templates,
\* timelines and construction script are the blueprint's on return.
C21_ResultAndClassLists ==
    /\ \A o \in OwnerObjects :
           outerAtEntry[o] = "GeneratedClass" =>
               o \notin RenameAttempted /\ outerOf[o] = "GeneratedClass"
    /\ ownPc = "done" =>
           /\ ownResult = "true" <=> EveryRenameSucceeded
           /\ (~bpgClassValid \/ NothingOwnedByBlueprint) =>
                  /\ ownResult = "true"
                  /\ renameLog = <<>>
                  /\ outerOf = outerAtEntry
                  /\ classTemplates = classAtEntry
                  /\ ~packageDirty
           /\ RenameAttempted \cap OwnedTemplates # {} => classTemplates = SyncClassLists

\* C21's case: the function has returned false after one Rename failed and
\* another succeeded, an object of the class was passed over, and the lists
\* of the class, which were empty, are the blueprint's.
C21_Witness ==
    /\ ownPc = "done" /\ ownResult = "false"
    /\ \E i, j \in 1..Len(renameLog) : renameLog[i][2] /\ ~renameLog[j][2]
    /\ \E o \in OwnedTemplates : outerAtEntry[o] = "GeneratedClass"
    /\ classAtEntry # SyncClassLists
    /\ classTemplates = SyncClassLists
====
